---- MODULE Spec2Model ----
(***************************************************************************)
(* LAC node (lac-node/lac_node.py and its managers) as a state machine.    *)
(*                                                                         *)
(* Amounts are integers in tenths of a LAC (0.1 LAC, the smallest fee of   *)
(* the program, is 1): the program computes with floats, the model with    *)
(* exact arithmetic.  Python dicts are TLA+ records/functions, so a key    *)
(* that a dict does not hold is a field that is not in DOMAIN.             *)
(* secrets.token_bytes / token_hex are fresh values drawn from a counter.  *)
(* sha256 is modelled by the tuple or number it is applied to (collision   *)
(* free), except the block hash, which is a number in 0..HashSpace-1.      *)
(***************************************************************************)
EXTENDS Integers, Sequences, FiniteSets, TLC

(***************************************************************************)
(* Bounds of the model.                                                    *)
(***************************************************************************)
\* chain length at which block producers and peers stop extending the chain
MaxHeight == 4
\* number of rounds of auto_mining_loop that find an eligible miner
MaxRounds == 2
\* BatchProcessor(batch_size=...): 100 in PerformanceManager, 10 in the module's
\* own test
batch_size == 2
\* CircuitBreaker(failure_threshold=..., timeout=...): 5 failures and 60
\* seconds by default, 3 failures in the module's own test
failure_threshold == 2
timeout == 2
\* value of the clock up to which the circuit breaker is followed
MaxBreakerClock == 6
\* number of values of the modelled block hash (sha256 hexdigest)
HashSpace == 1
\* number of STASH deposits explored
MaxDeposits == 2
\* number of stash_withdraw requests that may wait for S.lock together
MaxRequests == 2
\* number of mempool entries above which request handlers are not explored
MaxMempool == 3
\* number of time-locked transfers created in a run
MaxTimelocks == 1
\* number of accepted STASH withdrawals explored
MaxWithdrawals == 2
\* FULL_BLOCKS_KEEP of lac_pruning.py:13 is 1000, PRUNING_CHECK_INTERVAL
\* (lac_pruning.py:15) and the margin of should_prune (lac_pruning.py:72) are
\* 100: the model scales them so that a pruning run happens on a short chain.
FULL_BLOCKS_KEEP == 1
PRUNING_CHECK_INTERVAL == 1
PRUNE_MARGIN == 2
\* random.randint(4, 10) phantom transactions accompany a VEIL transfer
\* (lac_node.py:5198); the model scales the range.
PHANTOM_MIN == 1
PHANTOM_MAX == 2
\* number of VEIL transfers explored
MaxVeil == 2
\* number of different contents save_atomic is asked to write to one file
MaxVersions == 2
\* number of ephemeral messages waiting for a block
MaxEphemeral == 2
\* seconds of the clock the witness collection is followed for
MaxTime == 2
\* number of witness requests created
MaxWitnessRequests == 1
\* number of signatures a witness request may hold
MaxSignatures == 2
\* number of blocks handed to ZeroHistoryManager.add_block
MaxZhBlocks == 3
\* value of the clock up to which the storage tiers are followed
MaxClock == 3
\* number of proofs submitted for one block
MaxProofs == 3
\* number of blocks LACMiningCoordinator.mine_block is followed for
MaxPoetBlocks == 3

(***************************************************************************)
(* Program constants (tenths of a LAC where they are amounts).             *)
(***************************************************************************)
TRANSFER_FEE == 1
VEIL_FEE == 10
STASH_FEE == 20
TIMELOCK_FEE == 10
MIN_BALANCE_FOR_MINING == 500
REWARD_PER_WINNER == 100
WINNERS_PER_BLOCK == 19
FAUCET_BASE == 300
FAUCET_PER_LEVEL == 100
GOD_LEVEL == 7
\* a block takes S.mempool[:50] and the mempool is cut to its last 1000
\* entries (lac_node.py:784, 873-876): the model scales both
MEMPOOL_PER_BLOCK == 1
MEMPOOL_CAP == 1
\* a block takes S.ephemeral_msgs[:20] (lac_node.py:779): scaled
EPHEMERAL_PER_BLOCK == 1
\* change_nickname burns fee = 200 LAC (lac_node.py:3055): scaled to 20 LAC
NICKNAME_FEE == 200
\* MIN_MSG_FEE = 0.5 LAC
MIN_MSG_FEE == 5
\* the empty collection State.load falls back to ([] or {}): no version of the data
Empty == 0
\* ZeroHistoryConfig.MIN_WITNESSES is 100 (3 in DEV_MODE, lac_node.py:28) and
\* MAX_WITNESS_TIMEOUT is 300 seconds: the model scales them.
MIN_WITNESSES == 2
MAX_WITNESS_TIMEOUT == 1
\* ZeroHistoryConfig of lac_zero_history.py:36-80, scaled to the clock of the
\* model: L3_LIFETIME is 30 days and L2_LIFETIME 90 days; commitments are
\* kept whole for CHECKPOINT_RETENTION_YEARS = 10 years and thinned to every
\* 10th after 1 year and every 100th after 5 years; COMMITMENT_INTERVAL is
\* 1000 blocks (10 in DEV_MODE).
L3_LIFETIME == 1
L2_LIFETIME == 2
ONE_YEAR == 1
FIVE_YEARS == 2
CHECKPOINT_RETENTION_YEARS == 3
CHECKPOINT_INTERVAL_1Y == 2
CHECKPOINT_INTERVAL_5Y == 2
COMMITMENT_INTERVAL == 1
\* ValidatorManager: levels and stakes (in LAC) of lac_zero_history.py:59-62
MIN_VALIDATOR_LEVEL == 5
PRIORITY_VALIDATOR_LEVEL == 6
VALIDATOR_STAKE_L5 == 1000
VALIDATOR_STAKE_L6 == 5000
\* LACPoETMiningV3: SPEED_WINNERS is 12, MAX_WINS_PER_ADDRESS is 3 and
\* DIFFICULTY_ADJUSTMENT_INTERVAL is 100 blocks (lac_poet_mining.py:37, 69,
\* 43): the model scales them.  TARGET_BLOCK_TIME is in seconds.
SPEED_WINNERS == 2
MAX_WINS_PER_ADDRESS == 1
DIFFICULTY_ADJUSTMENT_INTERVAL == 2
TARGET_BLOCK_TIME == 10
\* FRAUD_PUNISHMENT_BAN is 15 days: the model scales it to its clock
FRAUD_PUNISHMENT_BAN == 1

\* the wallets of the model and the seeds' addresses
Addrs == {"a1", "a2"}
\* STASH_NOMINALS, nominal_code -> amount (only the codes the balances of
\* the model can pay for)
STASH_NOMINALS == [c \in {0} |-> 1000]

VARIABLES
    chain,              \* S.chain: sequence of blocks
    wallets,            \* S.wallets: address -> [balance, level] and, once set, username
    usernames,          \* S.usernames: username -> address
    counters,           \* S.counters: emitted_* / burned_* totals
    spent_key_images,   \* S.spent_key_images
    mempool,            \* S.mempool
    stash_pool,         \* S.stash_pool: total_balance, deposits, spent_nullifiers
    active_sessions,    \* S.active_sessions
    pending_timelocked, \* S.timelock.pending_timelocked (keyed by content hash)
    last_prune_block,   \* S.pruning.last_prune_block
    zh_height,          \* S.zero_history: heights handed to add_block
    lock,               \* S.lock: "free" or its holder
    pc,                 \* position of auto_mining_loop
    phases,             \* effects of the latest block production applied so far
    new_block,          \* auto_mining_loop: index of the block being produced
    current_height,     \* S.mining_coordinator.poet.current_height
    io_error,           \* the data directory currently fails writes
    disk,               \* files of the data directory, by name without .json
    sent,               \* blocks posted to peers by broadcast_block_to_peers
    peer,               \* the State of a peer node that takes its blocks from this one
    nacl_available,     \* lac_crypto.NACL_AVAILABLE of this build
    next_secret,        \* next fresh value of secrets.token_bytes
    via,                \* the paths that have appended a block to the chain
    sync_pc,            \* sync_from_peer: "idle", or "batch" inside a batch's lock
    requests,           \* stash_withdraw requests parsed and waiting for S.lock
    withdrawals,        \* accepted STASH withdrawals
    veil_accepted,      \* VEIL requests accepted so far
    ephemeral_msgs,     \* S.ephemeral_msgs
    reply,              \* the last response of a handler that reports one
    save_pc,            \* State.save of the mining loop: 0, or the file it writes next
    written,            \* the files that save has written so far, with what it wrote
    existed,            \* the states of the store that existed while that save ran
    round,              \* what the last step of auto_mining_loop found: "none" when it was not the start of a round
    io_log,             \* the kinds of I/O performed so far, with or without S.lock
    sa_pc,              \* StateManager.save_atomic: the step it is at
    sa_data,            \* save_atomic: the data it was called with
    sa_target,          \* save_atomic: the file base_dir/filename
    sa_backup,          \* save_atomic: the .json.backup sibling of the file
    sa_temp,            \* save_atomic: the file made by tempfile.mkstemp
    sa_prev,            \* the target file as it was when save_atomic was called
    now,                \* int(time.time())
    validators,         \* validator_manager.validators: address -> ValidatorInfo
    bans,               \* address -> the end of the latest ban punish_fraud gave it
    pending_requests,   \* witness_system.pending_requests: request_id -> WitnessRequest
    l1_commitments,     \* zero_history.l1_commitments
    trigger_pc,         \* position of _create_commitment_trigger
    trigger_request,    \* its witness_request.request_id
    trigger_todo,       \* validators _simulate_witness_collection has yet to visit
    zh_current_height,  \* zero_history.current_height
    last_commitment_height, \* zero_history.last_commitment_height
    l3_blocks,          \* zero_history.l3_blocks: [height, timestamp]
    l2_blocks,          \* zero_history.l2_blocks: [height, timestamp]
    submitted_proofs,   \* mining_coordinator.submitted_proofs: [address, elapsed]
    speed_winners,      \* speed_winners of the latest mine_block, as positions
    difficulty,         \* poet.difficulty, in thousandths
    block_times,        \* poet.block_times, in seconds
    batch,              \* a BatchProcessor and the threads that call it
    breaker             \* a CircuitBreaker and the call its caller is in

vars == <<chain, wallets, usernames, counters, spent_key_images, mempool, stash_pool,
          active_sessions, pending_timelocked, last_prune_block, zh_height,
          lock, pc, phases, new_block, current_height, io_error, disk, sent, peer,
          nacl_available, next_secret, via, sync_pc, requests, withdrawals,
          veil_accepted, ephemeral_msgs, reply, save_pc, written, existed, round, io_log, sa_pc, sa_data,
          sa_target, sa_backup, sa_temp, sa_prev, now, validators, bans,
          pending_requests, l1_commitments, trigger_pc, trigger_request,
          trigger_todo, zh_current_height, last_commitment_height, l3_blocks,
          l2_blocks, submitted_proofs, speed_winners, difficulty, block_times, batch, breaker>>

\* Python's None where a number is expected
None == 0 - 1

\* CircuitBreaker.__init__.  at is "idle" between calls and "func" while the
\* wrapped function runs; outcome is how the last call ended; recovered and
\* failures_since tell whether a trial call has closed the breaker, and how
\* many calls have failed since the last time one did
NewCircuitBreaker ==
    [failure_count |-> 0,
     last_failure_time |-> None,
     state |-> "CLOSED",
     at |-> "idle",
     outcome |-> "none",
     recovered |-> FALSE,
     failures_since |-> 0]

\* the threads that call the BatchProcessor, and the transactions they add
Threads == {"t1", "t2"}
TxIds == {1, 2}

ReturnNone == [is_none |-> TRUE, batch |-> <<>>]
Return(b) == [is_none |-> FALSE, batch |-> b]

\* BatchProcessor.__init__
NewBatchProcessor ==
    [pending_transactions |-> <<>>,
     lock |-> "free",
     at |-> [t \in Threads |-> "idle"],
     tx |-> [t \in Threads |-> 0],
     returned |-> [t \in Threads |-> ReturnNone]]

(***************************************************************************)
(* Helpers.                                                                *)
(***************************************************************************)
\* the block dict holds no 'hash' key (block['hash'] raises KeyError), or no
\* 'previous_hash' key (block.get('previous_hash') is None)
NoHash == HashSpace
Hashes == 0 .. (HashSpace - 1)

RECURSIVE SumOver(_, _)
SumOver(f, S) ==
    IF S = {} THEN 0
    ELSE LET x == CHOOSE y \in S : TRUE IN f[x] + SumOver(f, S \ {x})

\* del d[key]
Without(f, key) == [k \in DOMAIN f \ {key} |-> f[k]]
\* d[key] = value
With(f, key, value) == [k \in DOMAIN f \cup {key} |-> IF k = key THEN value ELSE f[k]]

Balance(a) == IF a \in DOMAIN wallets THEN wallets[a].balance ELSE 0
Level(a) == IF a \in DOMAIN wallets THEN wallets[a].level ELSE 0

\* dict update wallets[a]['balance'] += d, creating the wallet when asked to
Credit(w, a, d) ==
    IF a \in DOMAIN w
    THEN [w EXCEPT ![a].balance = @ + d]
    ELSE [x \in DOMAIN w \cup {a} |->
            IF x = a THEN [balance |-> d, level |-> 0] ELSE w[x]]

\* hashlib.sha256(json.dumps({index, prev, ts, txs, nonce})) of a mined block
BlockHash(index, prev, ts, txs, nonce) ==
    (index + 2 * prev + ts + txs + nonce) % HashSpace

\* the effects of one block production of auto_mining_loop
AllPhases == {"rewards", "appended", "key_images", "mempool", "timelocks",
              "zero_history"}

Genesis ==
    [index |-> 0, previous_hash |-> 0, hash |-> 0, transactions |-> <<>>,
     miner |-> "genesis", pruned |-> FALSE]

\* State.save: every collection is written to its file; a failing write raises
\* before chain.json is replaced
SaveOk == ~io_error
\* the files State.save writes, in the order it writes them: chain.json,
\* wallets.json, usernames.json, key_images.json, stash_pool.json,
\* counters.json
Files == <<"chain", "wallets", "usernames", "key_images", "stash_pool", "counters">>

\* list(self.spent_key_images): the members of the set in some order
RECURSIVE list(_)
list(s) ==
    IF s = {} THEN <<>>
    ELSE LET x == CHOOSE x \in s : TRUE IN <<x>> \o list(s \ {x})

\* the JSON texts State.save writes for the collections given
StoreFilesWith(c, w, u, k, s, n) ==
    [chain |-> c, wallets |-> w, usernames |-> u, key_images |-> list(k),
     stash_pool |-> s, counters |-> n]
\* ... by a handler that leaves S.usernames alone
StoreFiles(c, w, k, s, n) == StoreFilesWith(c, w, usernames, k, s, n)
Saved(c, w, k, s, n) == IF SaveOk THEN StoreFiles(c, w, k, s, n) ELSE disk
SavedWith(c, w, u, k, s, n) == IF SaveOk THEN StoreFilesWith(c, w, u, k, s, n) ELSE disk

\* an I/O operation: a write to the data directory ("disk") or a request to a
\* peer ("network"), performed by a thread that holds S.lock or does not
Io(kind, locked) == [kind |-> kind, locked |-> locked]

\* what State.save would write now
StoreState ==
    StoreFilesWith(chain, wallets, usernames, spent_key_images, stash_pool, counters)
\* the states of the store a running save of the mining loop has lived through
Observed == IF save_pc' > 0 THEN existed \cup {StoreState'} ELSE {}

\* a file of the data directory: absent, or holding the whole or a part of the
\* JSON text of a version of the data
NoFile == [exists |-> FALSE, v |-> 0, complete |-> TRUE]
Whole(v) == [exists |-> TRUE, v |-> v, complete |-> TRUE]
Part(v) == [exists |-> TRUE, v |-> v, complete |-> FALSE]

\* S.usernames = {}
NoNames == [uname \in {} |-> ""]

NoReply == [handler |-> "none", status |-> "none"]
NoRequest == [to |-> "none"]

\* append to the 'transactions' list of the last block of the chain
AppendToLastBlock(c, tx) ==
    [c EXCEPT ![Len(c)].transactions = Append(@, tx)]

Range(seq) == {seq[i] : i \in 1 .. Len(seq)}

\* the transactions of a block (a pruned block keeps their hashes only)
Txs(block) == IF block.pruned THEN <<>> ELSE block.transactions

\* S.wallets as load() finds them: the balances of the model at given levels
InitialWallets(levels) ==
    [a \in Addrs |-> [balance |-> IF a = "a1" THEN 1200 ELSE 600, level |-> levels[a]]]

\* the state after construction, whatever the wallets
InitState ==
    /\ chain = <<Genesis>>
    /\ usernames = NoNames
    /\ counters = [emitted_mining |-> 0, emitted_faucet |-> 1800, burned_fees |-> 0]
    /\ spent_key_images = {}
    /\ mempool = <<>>
    /\ stash_pool = [total_balance |-> 0, deposits |-> {}, spent_nullifiers |-> <<>>]
    /\ active_sessions = {}
    /\ pending_timelocked = {}
    /\ last_prune_block = 0
    /\ zh_height = {}
    /\ lock = "free"
    /\ pc = "sleep"
    /\ phases = AllPhases
    /\ new_block = 0
    /\ current_height = 0
    /\ io_error = FALSE
    /\ disk = StoreFiles(chain, wallets, spent_key_images, stash_pool, counters)
    /\ sent = {}
    /\ peer = [chain |-> chain, wallets |-> wallets,
               spent_key_images |-> spent_key_images, stash_pool |-> stash_pool]
    /\ nacl_available \in BOOLEAN
    /\ next_secret = 1
    /\ via = {}
    /\ sync_pc = "idle"
    /\ requests = [t \in 1 .. MaxRequests |-> NoRequest]
    /\ withdrawals = <<>>
    /\ save_pc = 0
    /\ written = <<>>
    /\ existed = {}
    /\ round = "none"
    /\ io_log = {}
    /\ sa_pc = "idle"
    /\ sa_data = 1
    /\ sa_target = NoFile
    /\ sa_backup = NoFile
    /\ sa_temp = NoFile
    /\ sa_prev = NoFile
    /\ now = 0
    /\ validators = <<>>
    /\ bans = <<>>
    /\ pending_requests = <<>>
    /\ l1_commitments = <<>>
    /\ trigger_pc = "idle"
    /\ trigger_request = 0
    /\ trigger_todo = {}
    /\ zh_current_height = 0
    /\ last_commitment_height = 0
    /\ l3_blocks = {}
    /\ l2_blocks = {}
    /\ submitted_proofs = <<>>
    /\ speed_winners = <<>>
    /\ difficulty = 1000
    /\ block_times = <<>>
    /\ batch = NewBatchProcessor
    /\ breaker = NewCircuitBreaker
    /\ veil_accepted = <<>>
    /\ ephemeral_msgs = <<>>
    /\ reply = NoReply

Init ==
    /\ wallets = InitialWallets([a \in Addrs |-> 0])
    /\ InitState

\* the node starts on a data directory in which wallets have bought levels
\* in earlier runs (upgrade_level, up to level 7)
InitLevels ==
    /\ \E levels \in [Addrs -> {0, GOD_LEVEL}] : wallets = InitialWallets(levels)
    /\ InitState

(***************************************************************************)
(* Request handlers.  A handler runs its critical section under S.lock, so *)
(* it is one step that needs the lock to be free.                          *)
(***************************************************************************)
HandlerMayRun == lock = "free" /\ Len(mempool) < MaxMempool

\* input amounts of transfer requests (tenths of a LAC)
Amounts == {500}

\* /api/login
login(a) ==
    /\ lock = "free"
    /\ a \in DOMAIN wallets
    /\ a \notin active_sessions
    /\ active_sessions' = active_sessions \cup {a}
    /\ UNCHANGED <<chain, wallets, usernames, counters, spent_key_images,
                    mempool, stash_pool, pending_timelocked,
                    last_prune_block, zh_height, lock, pc, phases,
                    new_block, current_height, io_error, disk, sent, peer,
                    nacl_available, next_secret, via, sync_pc, requests,
                    withdrawals, veil_accepted, ephemeral_msgs, reply,
                    save_pc, written, io_log, sa_pc, sa_data, sa_target,
                    sa_backup, sa_temp, sa_prev, now, validators, bans,
                    pending_requests, l1_commitments, trigger_pc,
                    trigger_request, trigger_todo, zh_current_height,
                    last_commitment_height, l3_blocks, l2_blocks,
                    submitted_proofs, speed_winners, difficulty,
                    block_times, batch, breaker>>
    /\ existed' = Observed
    /\ round' = "none"

\* /api/register (without a referral code)
register(a) ==
    /\ lock = "free"
    /\ a \notin DOMAIN wallets
    /\ wallets' = Credit(wallets, a, 0)
    /\ active_sessions' = active_sessions \cup {a}
    /\ io_log' = io_log \cup {Io("disk", TRUE)}
    /\ disk' = Saved(chain, wallets', spent_key_images, stash_pool, counters)
    /\ UNCHANGED <<chain, usernames, counters, spent_key_images, mempool,
                    stash_pool, pending_timelocked, last_prune_block,
                    zh_height, lock, pc, phases, new_block, current_height,
                    io_error, sent, peer, nacl_available, next_secret, via,
                    sync_pc, requests, withdrawals, veil_accepted,
                    ephemeral_msgs, reply, save_pc, written, sa_pc, sa_data,
                    sa_target, sa_backup, sa_temp, sa_prev, now, validators,
                    bans, pending_requests, l1_commitments, trigger_pc,
                    trigger_request, trigger_todo, zh_current_height,
                    last_commitment_height, l3_blocks, l2_blocks,
                    submitted_proofs, speed_winners, difficulty,
                    block_times, batch, breaker>>
    /\ existed' = Observed
    /\ round' = "none"

\* /api/faucet
faucet(a) ==
    /\ HandlerMayRun
    /\ a \in DOMAIN wallets
    /\ LET faucet_amount == FAUCET_BASE + Level(a) * FAUCET_PER_LEVEL
           faucet_tx == [type |-> "faucet", from |-> "faucet", to |-> a,
                         amount |-> faucet_amount]
       IN /\ mempool' = Append(mempool, faucet_tx)
          /\ wallets' = Credit(wallets, a, faucet_amount)
          /\ counters' = [counters EXCEPT !.emitted_faucet = @ + faucet_amount]
    /\ io_log' = io_log \cup {Io("disk", TRUE)}
    /\ disk' = Saved(chain, wallets', spent_key_images, stash_pool, counters')
    /\ UNCHANGED <<chain, usernames, spent_key_images, stash_pool,
                    active_sessions, pending_timelocked, last_prune_block,
                    zh_height, lock, pc, phases, new_block, current_height,
                    io_error, sent, peer, nacl_available, next_secret, via,
                    sync_pc, requests, withdrawals, veil_accepted,
                    ephemeral_msgs, reply, save_pc, written, sa_pc, sa_data,
                    sa_target, sa_backup, sa_temp, sa_prev, now, validators,
                    bans, pending_requests, l1_commitments, trigger_pc,
                    trigger_request, trigger_todo, zh_current_height,
                    last_commitment_height, l3_blocks, l2_blocks,
                    submitted_proofs, speed_winners, difficulty,
                    block_times, batch, breaker>>
    /\ existed' = Observed
    /\ round' = "none"

\* /api/transfer/normal
transfer_normal(from_addr, to_addr, amount) ==
    /\ HandlerMayRun
    /\ amount > 0
    /\ to_addr \in DOMAIN wallets            \* resolve_recipient
    /\ from_addr \in DOMAIN wallets
    /\ IF Balance(from_addr) < amount + TRANSFER_FEE
       THEN UNCHANGED <<mempool, wallets, counters, disk, io_log>>
       ELSE /\ mempool' = Append(mempool,
                    [type |-> "transfer", from |-> from_addr, to |-> to_addr,
                     amount |-> amount, fee |-> TRANSFER_FEE])
            /\ wallets' = Credit(Credit(wallets, from_addr, 0 - (amount + TRANSFER_FEE)),
                                 to_addr, amount)
            /\ counters' = [counters EXCEPT !.burned_fees = @ + TRANSFER_FEE]
            /\ io_log' = io_log \cup {Io("disk", TRUE)}
            /\ disk' = Saved(chain, wallets', spent_key_images, stash_pool, counters')
    /\ UNCHANGED <<chain, usernames, spent_key_images, stash_pool,
                    active_sessions, pending_timelocked, last_prune_block,
                    zh_height, lock, pc, phases, new_block, current_height,
                    io_error, sent, peer, nacl_available, next_secret, via,
                    sync_pc, requests, withdrawals, veil_accepted,
                    ephemeral_msgs, reply, save_pc, written, sa_pc, sa_data,
                    sa_target, sa_backup, sa_temp, sa_prev, now, validators,
                    bans, pending_requests, l1_commitments, trigger_pc,
                    trigger_request, trigger_todo, zh_current_height,
                    last_commitment_height, l3_blocks, l2_blocks,
                    submitted_proofs, speed_winners, difficulty,
                    block_times, batch, breaker>>
    /\ existed' = Observed
    /\ round' = "none"

\* /api/panic
panic(a) ==
    /\ lock = "free"
    /\ a \in DOMAIN wallets
    /\ wallets' = [x \in DOMAIN wallets \ {a} |-> wallets[x]]
    /\ io_log' = io_log \cup {Io("disk", TRUE)}
    /\ disk' = Saved(chain, wallets', spent_key_images, stash_pool, counters)
    /\ UNCHANGED <<chain, usernames, counters, spent_key_images, mempool,
                    stash_pool, active_sessions, pending_timelocked,
                    last_prune_block, zh_height, lock, pc, phases,
                    new_block, current_height, io_error, sent, peer,
                    nacl_available, next_secret, via, sync_pc, requests,
                    withdrawals, veil_accepted, ephemeral_msgs, reply,
                    save_pc, written, sa_pc, sa_data, sa_target, sa_backup,
                    sa_temp, sa_prev, now, validators, bans,
                    pending_requests, l1_commitments, trigger_pc,
                    trigger_request, trigger_todo, zh_current_height,
                    last_commitment_height, l3_blocks, l2_blocks,
                    submitted_proofs, speed_winners, difficulty,
                    block_times, batch, breaker>>
    /\ existed' = Observed
    /\ round' = "none"

\* nicknames a request asks for, and new_nickname.lstrip('@').lower()
Nicknames == {"bob", "@Bob", "carl"}
CleanName(new_nickname) == IF new_nickname = "@Bob" THEN "bob" ELSE new_nickname

\* "Remove old username entry": the first entry of S.usernames that maps to addr
RemoveOld(names, addr) ==
    LET old == {u \in DOMAIN names : names[u] = addr}
    IN IF old = {} THEN names ELSE Without(names, CHOOSE u \in old : TRUE)

\* /api/change_nickname
change_nickname(addr, new_nickname) ==
    /\ HandlerMayRun
    /\ addr \in DOMAIN wallets
    /\ IF Balance(addr) < NICKNAME_FEE
       THEN UNCHANGED <<mempool, wallets, usernames, disk, io_log>>
       ELSE LET clean_name == CleanName(new_nickname)
                wallet == wallets[addr]
            IN /\ mempool' = Append(mempool,
                       [type |-> "burn_nickname_change", from |-> addr, to |-> "burn",
                        amount |-> NICKNAME_FEE])
               /\ wallets' = [wallets EXCEPT ![addr] =
                       With([wallet EXCEPT !.balance = @ - NICKNAME_FEE],
                            "username", clean_name)]
               /\ usernames' = With(RemoveOld(usernames, addr), clean_name, addr)
               /\ io_log' = io_log \cup {Io("disk", TRUE)}
               /\ disk' = SavedWith(chain, wallets', usernames', spent_key_images,
                                    stash_pool, counters)
    /\ UNCHANGED <<chain, counters, spent_key_images, stash_pool,
                    active_sessions, pending_timelocked, last_prune_block,
                    zh_height, lock, pc, phases, new_block, current_height,
                    io_error, sent, peer, nacl_available, next_secret, via,
                    sync_pc, requests, withdrawals, veil_accepted,
                    ephemeral_msgs, reply, save_pc, written, sa_pc, sa_data,
                    sa_target, sa_backup, sa_temp, sa_prev, now, validators,
                    bans, pending_requests, l1_commitments, trigger_pc,
                    trigger_request, trigger_todo, zh_current_height,
                    last_commitment_height, l3_blocks, l2_blocks,
                    submitted_proofs, speed_winners, difficulty,
                    block_times, batch, breaker>>
    /\ existed' = Observed
    /\ round' = "none"

(***************************************************************************)
(* VEIL transfer.                                                          *)
(***************************************************************************)
\* hashlib.sha256(b"VEIL_KI" + private_key + tx_entropy + str(amount)), with
\* tx_entropy = secrets.token_bytes(16) drawn for this request
VeilKeyImage(from_addr, entropy, amount) == <<"VEIL_KI", from_addr, entropy>>

\* RingSignature.compute_key_image(seed): sha256(H2P(pubkey) + private_key)
compute_key_image(from_addr) == <<"seed", from_addr, 0>>

\* key image of a phantom: sha256(b"VEIL_KI" + token_bytes(32) + token_bytes(16))
PhantomKeyImage(n) == <<"VEIL_KI", "phantom", n>>

\* the 'key_image' of tx['ring_signature']: RingSignature.sign when the crypto
\* module is in use and a ring of two members exists, else the fallback dict
RingKeyImage(from_addr, key_image) ==
    IF nacl_available /\ (DOMAIN wallets) \ {from_addr} # {}
    THEN compute_key_image(from_addr)
    ELSE key_image

PhantomTx(n) ==
    [type |-> "veil_transfer", from |-> "anonymous", to |-> "veil_ota",
     amount |-> 0, fee |-> VEIL_FEE, key_image |-> PhantomKeyImage(n)]

\* all_txs after random.shuffle: the real transaction at position k among the
\* phantoms (the phantoms are interchangeable fresh values)
Shuffled(tx, first, count, k) ==
    [i \in 1 .. (count + 1) |->
        IF i = k THEN tx
        ELSE PhantomTx(first + (IF i < k THEN i ELSE i - 1))]

\* a handler that goes on after a failed check instead of returning
ReturnsNowhere(status) == FALSE

\* `return jsonify({'error': ...}), 4xx`: at a failed check the handler returns
\* its error response; the statements after the checks do not run
Returns(status) == status # "ok"

\* the checks of veil_transfer, in their order
veil_status(from_addr, to_addr, amount, key_image) ==
    IF amount <= 0 THEN "invalid_amount"
    ELSE IF to_addr \notin DOMAIN wallets THEN "recipient_not_found"
    ELSE IF Balance(from_addr) < amount + VEIL_FEE THEN "insufficient"
    ELSE IF key_image \in spent_key_images THEN "double_spend"
    ELSE "ok"

\* /api/transfer/veil
veil_transfer(from_addr, to_addr, amount) ==
    /\ HandlerMayRun
    /\ Len(veil_accepted) < MaxVeil
    /\ from_addr \in DOMAIN wallets
    /\ LET req == [from |-> from_addr, to |-> to_addr, amount |-> amount]
           replay == req \in Range(veil_accepted)
           total_needed == amount + VEIL_FEE
           key_image == VeilKeyImage(from_addr, next_secret, amount)
           status == veil_status(from_addr, to_addr, amount, key_image)
           tx == [type |-> "veil_transfer", from |-> "anonymous", to |-> "veil_ota",
                  amount |-> 0, real_from |-> from_addr, real_to |-> to_addr,
                  real_amount |-> amount, fee |-> VEIL_FEE,
                  key_image |-> RingKeyImage(from_addr, key_image)]
       IN IF Returns(status)
          THEN /\ reply' = [handler |-> "veil", status |-> status,
                            replay |-> replay, changed |-> FALSE]
               /\ next_secret' = IF status = "double_spend"
                                 THEN next_secret + 1 ELSE next_secret
               /\ UNCHANGED <<mempool, wallets, counters, spent_key_images, disk, io_log,
                              veil_accepted>>
          ELSE \E phantom_count \in PHANTOM_MIN .. PHANTOM_MAX :
               \E k \in 1 .. (phantom_count + 1) :
               /\ mempool' = mempool \o Shuffled(tx, next_secret, phantom_count, k)
               /\ spent_key_images' = spent_key_images \cup {key_image}
                      \cup {PhantomKeyImage(next_secret + i) : i \in 1 .. phantom_count}
               /\ wallets' = Credit(Credit(wallets, from_addr, 0 - total_needed),
                                    to_addr, amount)
               /\ counters' = [counters EXCEPT !.burned_fees = @ + VEIL_FEE]
               /\ next_secret' = next_secret + phantom_count + 1
               /\ veil_accepted' = Append(veil_accepted, req)
               /\ io_log' = io_log \cup {Io("disk", TRUE)}
               /\ disk' = Saved(chain, wallets', spent_key_images', stash_pool, counters')
               /\ reply' = [handler |-> "veil",
                            status |-> IF SaveOk THEN status ELSE "error500",
                            replay |-> replay,
                            changed |-> <<wallets', mempool', spent_key_images'>>
                                          # <<wallets, mempool, spent_key_images>>]
    /\ UNCHANGED <<chain, usernames, stash_pool, active_sessions,
                    pending_timelocked, last_prune_block, zh_height, lock,
                    pc, phases, new_block, current_height, io_error, sent,
                    peer, nacl_available, via, sync_pc, requests,
                    withdrawals, ephemeral_msgs, save_pc, written, sa_pc,
                    sa_data, sa_target, sa_backup, sa_temp, sa_prev, now,
                    validators, bans, pending_requests, l1_commitments,
                    trigger_pc, trigger_request, trigger_todo,
                    zh_current_height, last_commitment_height, l3_blocks,
                    l2_blocks, submitted_proofs, speed_winners, difficulty,
                    block_times, batch, breaker>>
    /\ existed' = Observed
    /\ round' = "none"

(***************************************************************************)
(* STASH pool.                                                             *)
(***************************************************************************)
\* hashlib.sha256(b"STASH_NULL" + secret)
Nullifier(secret) == <<"STASH_NULL", secret>>
\* hashlib.sha256(nullifier.encode())
NullifierHash(nullifier) == <<"sha256", nullifier>>

\* /api/stash/deposit
stash_deposit(from_addr, nominal_code) ==
    /\ HandlerMayRun
    /\ Cardinality(stash_pool.deposits) < MaxDeposits
    /\ nominal_code \in DOMAIN STASH_NOMINALS
    /\ from_addr \in DOMAIN wallets
    /\ LET amount == STASH_NOMINALS[nominal_code]
           total_needed == amount + STASH_FEE
           nullifier_hash == NullifierHash(Nullifier(next_secret))
           tx == [type |-> "stash_deposit", from |-> "anonymous", to |-> "stash_pool",
                  amount |-> amount, fee |-> STASH_FEE, nominal_code |-> nominal_code,
                  nullifier_hash |-> nullifier_hash, real_from |-> from_addr]
       IN IF Balance(from_addr) < total_needed
          THEN UNCHANGED <<mempool, wallets, counters, stash_pool, disk, io_log, next_secret>>
          ELSE /\ mempool' = Append(mempool, tx)
               /\ wallets' = Credit(wallets, from_addr, 0 - total_needed)
               /\ counters' = [counters EXCEPT !.burned_fees = @ + STASH_FEE]
               /\ stash_pool' = [stash_pool EXCEPT
                     !.total_balance = @ + amount,
                     !.deposits = @ \cup {[nullifier_hash |-> nullifier_hash,
                                           amount |-> amount,
                                           nominal |-> nominal_code]}]
               /\ next_secret' = next_secret + 1
               /\ io_log' = io_log \cup {Io("disk", TRUE)}
               /\ disk' = Saved(chain, wallets', spent_key_images, stash_pool', counters')
    /\ UNCHANGED <<chain, usernames, spent_key_images, active_sessions,
                    pending_timelocked, last_prune_block, zh_height, lock,
                    pc, phases, new_block, current_height, io_error, sent,
                    peer, nacl_available, via, sync_pc, requests,
                    withdrawals, veil_accepted, ephemeral_msgs, reply,
                    save_pc, written, sa_pc, sa_data, sa_target, sa_backup,
                    sa_temp, sa_prev, now, validators, bans,
                    pending_requests, l1_commitments, trigger_pc,
                    trigger_request, trigger_todo, zh_current_height,
                    last_commitment_height, l3_blocks, l2_blocks,
                    submitted_proofs, speed_winners, difficulty,
                    block_times, batch, breaker>>
    /\ existed' = Observed
    /\ round' = "none"

\* amounts a STASH key may name: a nominal, and a number that is no nominal
KeyAmounts == {STASH_NOMINALS[c] : c \in DOMAIN STASH_NOMINALS} \cup {400}
\* secrets a STASH key may carry: those of the keys handed out by deposits,
\* and 0, which no deposit produced
KeySecrets == {0} \cup {d.nullifier_hash[2][2] : d \in stash_pool.deposits}

\* the addresses whose seeds present STASH keys
Withdrawers == {"a2"}

\* nominal_code looked up from the amount of a "STASH-<amount>-<hex>" key
NominalOf(amount) ==
    IF \E c \in DOMAIN STASH_NOMINALS : STASH_NOMINALS[c] = amount
    THEN CHOOSE c \in DOMAIN STASH_NOMINALS : STASH_NOMINALS[c] = amount
    ELSE 0

\* stash_withdraw before `with S.lock`: the key is parsed, the nullifier computed
stash_withdraw_parse(t, to_addr, amount, secret) ==
    /\ requests[t] = NoRequest
    /\ \A u \in 1 .. (t - 1) : requests[u] # NoRequest   \* request slots are alike
    /\ Len(withdrawals) < MaxWithdrawals
    /\ amount # 0
    /\ requests' = [requests EXCEPT ![t] =
          [to |-> to_addr, amount |-> amount, nominal_code |-> NominalOf(amount),
           nullifier |-> Nullifier(secret)]]
    /\ UNCHANGED <<chain, wallets, usernames, counters, spent_key_images,
                    mempool, stash_pool, active_sessions,
                    pending_timelocked, last_prune_block, zh_height, lock,
                    pc, phases, new_block, current_height, io_error, disk,
                    sent, peer, nacl_available, next_secret, via, sync_pc,
                    withdrawals, veil_accepted, ephemeral_msgs, reply,
                    save_pc, written, io_log, sa_pc, sa_data, sa_target,
                    sa_backup, sa_temp, sa_prev, now, validators, bans,
                    pending_requests, l1_commitments, trigger_pc,
                    trigger_request, trigger_todo, zh_current_height,
                    last_commitment_height, l3_blocks, l2_blocks,
                    submitted_proofs, speed_winners, difficulty,
                    block_times, batch, breaker>>
    /\ existed' = Observed
    /\ round' = "none"

\* a check of the nullifier that finds no nullifier spent
NullifierNeverSpent(nullifier) == FALSE

\* `nullifier in spent`
NullifierSpent(nullifier) == nullifier \in Range(stash_pool.spent_nullifiers)

\* the deposit a withdrawal of `amount` with this nullifier would consume
MatchingDeposit(nullifier, amount) ==
    \E d \in stash_pool.deposits :
        d.nullifier_hash = NullifierHash(nullifier) /\ d.amount = amount

\* the checks of stash_withdraw inside `with S.lock`, in their order
stash_withdraw_status(r) ==
    IF r.to \notin DOMAIN wallets THEN "no_wallet"
    ELSE IF NullifierSpent(r.nullifier) THEN "already_spent"
    ELSE IF stash_pool.total_balance < r.amount THEN "insufficient_pool"
    ELSE "ok"

\* stash_withdraw inside `with S.lock`
stash_withdraw(t) ==
    /\ lock = "free"
    /\ requests[t] # NoRequest
    /\ LET r == requests[t]
           status == stash_withdraw_status(r)
           tx == [type |-> "stash_withdraw", from |-> "stash_pool", to |-> "stash_ota",
                  amount |-> r.amount, fee |-> 0, nominal_code |-> r.nominal_code,
                  nullifier |-> r.nullifier, real_to |-> r.to]
       IN IF Returns(status)
          THEN /\ reply' = [handler |-> "stash_withdraw", status |-> status,
                            changed |-> FALSE]
               /\ UNCHANGED <<mempool, wallets, stash_pool, disk, io_log, withdrawals>>
          ELSE /\ mempool' = Append(mempool, tx)
               /\ wallets' = Credit(wallets, r.to, r.amount)
               /\ stash_pool' = [stash_pool EXCEPT
                     !.total_balance = @ - r.amount,
                     !.spent_nullifiers = Append(@, r.nullifier)]
               /\ withdrawals' = Append(withdrawals,
                     [nullifier |-> r.nullifier, amount |-> r.amount, to |-> r.to,
                      deposit |-> MatchingDeposit(r.nullifier, r.amount),
                      raced |-> \E u \in DOMAIN requests :
                                   /\ u # t
                                   /\ requests[u] # NoRequest
                                   /\ requests[u].nullifier = r.nullifier])
               /\ io_log' = io_log \cup {Io("disk", TRUE)}
               /\ disk' = Saved(chain, wallets', spent_key_images, stash_pool', counters)
               /\ reply' = [handler |-> "stash_withdraw",
                            status |-> IF SaveOk THEN status ELSE "error500",
                            changed |-> <<wallets', mempool', stash_pool'>>
                                          # <<wallets, mempool, stash_pool>>]
    /\ requests' = [requests EXCEPT ![t] = NoRequest]
    /\ UNCHANGED <<chain, usernames, counters, spent_key_images,
                    active_sessions, pending_timelocked, last_prune_block,
                    zh_height, lock, pc, phases, new_block, current_height,
                    io_error, sent, peer, nacl_available, next_secret, via,
                    sync_pc, veil_accepted, ephemeral_msgs, save_pc,
                    written, sa_pc, sa_data, sa_target, sa_backup, sa_temp,
                    sa_prev, now, validators, bans, pending_requests,
                    l1_commitments, trigger_pc, trigger_request,
                    trigger_todo, zh_current_height, last_commitment_height,
                    l3_blocks, l2_blocks, submitted_proofs, speed_winners,
                    difficulty, block_times, batch, breaker>>
    /\ existed' = Observed
    /\ round' = "none"

(***************************************************************************)
(* Time-locked transfers (lac_timelock.py).                                *)
(***************************************************************************)
\* data.get('amount') is any number: the handler checks no sign
TimelockAmounts == {500, 0 - 500}

\* data.get('delay_blocks')
TimelockDelays == {1}

\* TimeLockManager.save: timelock.json is written with a plain open/json.dump
TimelockSaveOk == ~io_error

\* the 'timelock_pending' entries the chain holds
RECURSIVE CountPending(_)
CountPending(blocks) ==
    IF blocks = <<>> THEN 0
    ELSE Cardinality({k \in 1 .. Len(Txs(Head(blocks))) :
                         Txs(Head(blocks))[k].type = "timelock_pending"})
         + CountPending(Tail(blocks))

TimelocksCreated == CountPending(chain)

\* the checks of create_timelock and of create_timelock_tx, in their order;
\* a request without delay_blocks names unlock_block, 0 when it is absent too
create_timelock_status(from_addr, to_addr, amount, unlock_block) ==
    IF to_addr \notin DOMAIN wallets THEN "recipient_not_found"
    ELSE IF unlock_block <= Len(chain) THEN "unlock_in_past"
    ELSE IF from_addr \notin DOMAIN wallets THEN "no_wallet"
    ELSE IF Balance(from_addr) < amount + TIMELOCK_FEE THEN "insufficient"
    ELSE "ok"

\* /api/timelock/create, with TimeLockManager.create_timelock_tx
create_timelock(from_addr, to_addr, amount, delay_blocks) ==
    /\ HandlerMayRun
    /\ TimelocksCreated < MaxTimelocks
    /\ LET current_block == Len(chain)
           unlock_block == IF delay_blocks > 0
                           THEN current_block + delay_blocks ELSE 0
           total_cost == amount + TIMELOCK_FEE
           status == create_timelock_status(from_addr, to_addr, amount, unlock_block)
           tx == [from |-> from_addr, to |-> to_addr, amount |-> amount,
                  fee |-> TIMELOCK_FEE, unlock_block |-> unlock_block,
                  created_block |-> current_block]
           blockchain_tx == [type |-> "timelock_pending", from |-> "anonymous",
                             to |-> to_addr, amount |-> amount,
                             fee |-> TIMELOCK_FEE, unlock_block |-> unlock_block]
       IN IF Returns(status)
          THEN /\ reply' = [handler |-> "create_timelock", status |-> status,
                            changed |-> FALSE]
               /\ UNCHANGED <<wallets, pending_timelocked, chain, disk, io_log>>
          ELSE /\ tx \notin pending_timelocked
               /\ wallets' = Credit(wallets, from_addr, 0 - total_cost)
               /\ pending_timelocked' = pending_timelocked \cup {tx}
               /\ chain' = AppendToLastBlock(chain, blockchain_tx)
               /\ io_log' = io_log \cup {Io("disk", TRUE)}
               /\ disk' = IF TimelockSaveOk
                          THEN Saved(chain', wallets', spent_key_images,
                                     stash_pool, counters)
                          ELSE disk
               /\ reply' = [handler |-> "create_timelock",
                            status |-> IF TimelockSaveOk /\ SaveOk
                                       THEN status ELSE "error500",
                            changed |-> <<wallets', pending_timelocked'>>
                                          # <<wallets, pending_timelocked>>]
    /\ UNCHANGED <<usernames, counters, spent_key_images, mempool,
                    stash_pool, active_sessions, last_prune_block,
                    zh_height, lock, pc, phases, new_block, current_height,
                    io_error, sent, peer, nacl_available, next_secret, via,
                    sync_pc, requests, withdrawals, veil_accepted,
                    ephemeral_msgs, save_pc, written, sa_pc, sa_data,
                    sa_target, sa_backup, sa_temp, sa_prev, now, validators,
                    bans, pending_requests, l1_commitments, trigger_pc,
                    trigger_request, trigger_todo, zh_current_height,
                    last_commitment_height, l3_blocks, l2_blocks,
                    submitted_proofs, speed_winners, difficulty,
                    block_times, batch, breaker>>
    /\ existed' = Observed
    /\ round' = "none"

\* /api/timelock/cancel, with TimeLockManager.cancel_timelock_tx
cancel_timelock(tx, from_addr) ==
    /\ HandlerMayRun
    /\ tx \in pending_timelocked
    /\ LET blockchain_tx == [type |-> "timelock_cancelled", from |-> from_addr,
                             refund_amount |-> tx.amount + tx.fee]
       IN IF tx.from # from_addr
          THEN UNCHANGED <<wallets, pending_timelocked, chain, disk, io_log>>
          ELSE IF Len(chain) >= tx.unlock_block
          THEN UNCHANGED <<wallets, pending_timelocked, chain, disk, io_log>>
          ELSE /\ wallets' = IF from_addr \in DOMAIN wallets
                             THEN Credit(wallets, from_addr, tx.amount + tx.fee)
                             ELSE wallets
               /\ chain' = AppendToLastBlock(chain, blockchain_tx)
               /\ pending_timelocked' = pending_timelocked \ {tx}
               /\ io_log' = io_log \cup {Io("disk", TRUE)}
               /\ disk' = IF TimelockSaveOk
                          THEN Saved(chain', wallets', spent_key_images,
                                     stash_pool, counters)
                          ELSE disk
    /\ UNCHANGED <<usernames, counters, spent_key_images, mempool,
                    stash_pool, active_sessions, last_prune_block,
                    zh_height, lock, pc, phases, new_block, current_height,
                    io_error, sent, peer, nacl_available, next_secret, via,
                    sync_pc, requests, withdrawals, veil_accepted,
                    ephemeral_msgs, reply, save_pc, written, sa_pc, sa_data,
                    sa_target, sa_backup, sa_temp, sa_prev, now, validators,
                    bans, pending_requests, l1_commitments, trigger_pc,
                    trigger_request, trigger_todo, zh_current_height,
                    last_commitment_height, l3_blocks, l2_blocks,
                    submitted_proofs, speed_winners, difficulty,
                    block_times, batch, breaker>>
    /\ existed' = Observed
    /\ round' = "none"

\* a loop that executes every pending transfer
AllPending(current_block) == pending_timelocked

\* the pending transfers process_unlocked_transactions executes at a height
Unlocked(current_block) ==
    {tx \in pending_timelocked : current_block >= tx.unlock_block}

\* TimeLockManager._execute_tx over the unlocked transfers: wallets
RECURSIVE ExecuteWallets(_, _)
ExecuteWallets(w, txs) ==
    IF txs = {} THEN w
    ELSE LET tx == CHOOSE t \in txs : TRUE
         IN ExecuteWallets(Credit(w, tx.to, tx.amount), txs \ {tx})

\* TimeLockManager._execute_tx over the unlocked transfers: the
\* 'timelock_activated' entries appended to the last block
RECURSIVE ExecuteChain(_, _)
ExecuteChain(c, txs) ==
    IF txs = {} THEN c
    ELSE LET tx == CHOOSE t \in txs : TRUE
         IN ExecuteChain(
               AppendToLastBlock(c, [type |-> "timelock_activated",
                                     from |-> "anonymous", to |-> "anonymous",
                                     amount |-> tx.amount,
                                     activated_block |-> Len(c)]),
               txs \ {tx})

(***************************************************************************)
(* Blocks received from peers.                                             *)
(***************************************************************************)
\* the 'transactions' of a block a peer holds: transfers the peer applied to
\* its own wallets
PeerTxLists ==
    {<<>>,
     <<[type |-> "transfer", from |-> "a2", to |-> "a1", amount |-> 1000,
        fee |-> TRANSFER_FEE]>>}

\* blocks a peer may send with a given 'index'
PeerBlocks(index) ==
    [index : {index},
     previous_hash : Hashes \cup {NoHash},
     hash : Hashes \cup {NoHash},
     transactions : PeerTxLists,
     miner : {"peer"},
     pruned : {FALSE}]

\* the 'hash' of a block is the SHA-256 of its index, previous_hash,
\* timestamp, transaction count and nonce (the fields of a peer block the
\* model does not carry count as 0); a block without the key matches nothing
HashMatches(block) ==
    block.hash = BlockHash(block.index, block.previous_hash, 0, Len(Txs(block)), 0)

\* a check of previous_hash that accepts every block
PreviousHashUnchecked(block, prev_block) == TRUE

\* `block.get('previous_hash') != prev_block['hash']` did not reject the block;
\* prev_block['hash'] raises KeyError when the key is missing
PreviousHashOk(block, prev_block) ==
    block.previous_hash = prev_block.hash

\* /api/blocks/range for one block: the block dict as it is stored
blocks_range(start) == chain[start + 1]

\* /api/block/submit: what the handler answers to a block, for the chain c of
\* the node that runs it
SubmitStatus(c, block) ==
    LET block_index == block.index
        have == block_index >= 0 /\ block_index < Len(c)
    IN IF have /\ (c[block_index + 1].hash = NoHash \/ block.hash = NoHash)
       THEN "error500"
       ELSE IF have /\ c[block_index + 1].hash = block.hash
       THEN "already_have"
       ELSE IF block_index > 0 /\ ~(block_index - 1 < Len(c))
       THEN "missing_previous"
       ELSE IF block_index > 0 /\ c[block_index].hash = NoHash
       THEN "error500"
       ELSE IF block_index > 0 /\ ~PreviousHashOk(block, c[block_index])
       THEN "invalid_previous_hash"
       ELSE IF block_index = Len(c)
       THEN "accepted"
       ELSE "index_mismatch"

\* /api/block/submit
block_submit(block) ==
    /\ lock = "free"
    /\ LET status == SubmitStatus(chain, block)
       IN IF status = "accepted"
          THEN /\ Len(chain) < MaxHeight
               /\ chain' = Append(chain, block)
               /\ via' = via \cup {"submitted"}
               /\ io_log' = io_log \cup {Io("disk", TRUE)}
               /\ disk' = Saved(chain', wallets, spent_key_images, stash_pool, counters)
          ELSE UNCHANGED <<chain, via, disk, io_log>>
    /\ UNCHANGED <<wallets, usernames, counters, spent_key_images, mempool,
                    stash_pool, active_sessions, pending_timelocked,
                    last_prune_block, zh_height, lock, pc, phases,
                    new_block, current_height, io_error, sent, peer,
                    nacl_available, next_secret, sync_pc, requests,
                    withdrawals, veil_accepted, ephemeral_msgs, reply,
                    save_pc, written, sa_pc, sa_data, sa_target, sa_backup,
                    sa_temp, sa_prev, now, validators, bans,
                    pending_requests, l1_commitments, trigger_pc,
                    trigger_request, trigger_todo, zh_current_height,
                    last_commitment_height, l3_blocks, l2_blocks,
                    submitted_proofs, speed_winners, difficulty,
                    block_times, batch, breaker>>
    /\ existed' = Observed
    /\ round' = "none"

\* the 'transfer' transactions of a synced block applied to the wallets
RECURSIVE ApplyTransfers(_, _)
ApplyTransfers(w, txs) ==
    IF txs = <<>> THEN w
    ELSE LET tx == Head(txs)
             debited == IF tx.type = "transfer" /\ tx.from \in DOMAIN w
                        THEN Credit(w, tx.from, 0 - tx.amount)
                        ELSE w
             credited == IF tx.type = "transfer"
                         THEN Credit(debited, tx.to, tx.amount)
                         ELSE debited
         IN ApplyTransfers(credited, Tail(txs))

\* sync_from_peer: a batch was downloaded, `with S.lock` is entered
sync_begin ==
    /\ lock = "free"
    /\ sync_pc = "idle"
    /\ Len(chain) < MaxHeight
    /\ lock' = "sync"
    /\ sync_pc' = "batch"
    /\ io_log' = io_log \cup {Io("network", FALSE)}
    /\ UNCHANGED <<chain, wallets, usernames, counters, spent_key_images,
                    mempool, stash_pool, active_sessions,
                    pending_timelocked, last_prune_block, zh_height, pc,
                    phases, new_block, current_height, io_error, disk, sent,
                    peer, nacl_available, next_secret, via, requests,
                    withdrawals, veil_accepted, ephemeral_msgs, reply,
                    save_pc, written, sa_pc, sa_data, sa_target, sa_backup,
                    sa_temp, sa_prev, now, validators, bans,
                    pending_requests, l1_commitments, trigger_pc,
                    trigger_request, trigger_todo, zh_current_height,
                    last_commitment_height, l3_blocks, l2_blocks,
                    submitted_proofs, speed_winners, difficulty,
                    block_times, batch, breaker>>
    /\ existed' = Observed
    /\ round' = "none"

\* sync_from_peer: one iteration of `for block in blocks`
sync_block(block) ==
    /\ sync_pc = "batch"
    /\ Len(chain) < MaxHeight
    /\ IF block.index # Len(chain)
       THEN UNCHANGED <<chain, wallets, via, lock, sync_pc>>      \* continue
       ELSE IF chain[Len(chain)].hash = NoHash
               \/ ~PreviousHashOk(block, chain[Len(chain)])
       THEN \* return False, or KeyError caught by the handler of the function
            /\ lock' = "free"
            /\ sync_pc' = "idle"
            /\ UNCHANGED <<chain, wallets, via>>
       ELSE /\ chain' = Append(chain, block)
            /\ wallets' = ApplyTransfers(wallets, block.transactions)
            /\ via' = via \cup {"synced"}
            /\ UNCHANGED <<lock, sync_pc>>
    /\ UNCHANGED <<usernames, counters, spent_key_images, mempool,
                    stash_pool, active_sessions, pending_timelocked,
                    last_prune_block, zh_height, pc, phases, new_block,
                    current_height, io_error, disk, sent, peer,
                    nacl_available, next_secret, requests, withdrawals,
                    veil_accepted, ephemeral_msgs, reply, save_pc, written,
                    io_log, sa_pc, sa_data, sa_target, sa_backup, sa_temp,
                    sa_prev, now, validators, bans, pending_requests,
                    l1_commitments, trigger_pc, trigger_request,
                    trigger_todo, zh_current_height, last_commitment_height,
                    l3_blocks, l2_blocks, submitted_proofs, speed_winners,
                    difficulty, block_times, batch, breaker>>
    /\ existed' = Observed
    /\ round' = "none"

\* sync_from_peer: end of the batch, S.save() and release of the lock
sync_end ==
    /\ sync_pc = "batch"
    /\ io_log' = io_log \cup {Io("disk", TRUE)}
    /\ disk' = Saved(chain, wallets, spent_key_images, stash_pool, counters)
    /\ lock' = "free"
    /\ sync_pc' = "idle"
    /\ UNCHANGED <<chain, wallets, usernames, counters, spent_key_images,
                    mempool, stash_pool, active_sessions,
                    pending_timelocked, last_prune_block, zh_height, pc,
                    phases, new_block, current_height, io_error, sent, peer,
                    nacl_available, next_secret, via, requests, withdrawals,
                    veil_accepted, ephemeral_msgs, reply, save_pc, written,
                    sa_pc, sa_data, sa_target, sa_backup, sa_temp, sa_prev,
                    now, validators, bans, pending_requests, l1_commitments,
                    trigger_pc, trigger_request, trigger_todo,
                    zh_current_height, last_commitment_height, l3_blocks,
                    l2_blocks, submitted_proofs, speed_winners, difficulty,
                    block_times, batch, breaker>>
    /\ existed' = Observed
    /\ round' = "none"

\* /api/block/submit run by the peer node on a block this node has broadcast:
\* an accepted block is appended to the peer's chain, and nothing else of the
\* peer's state changes
peer_block_submit(block) ==
    /\ SubmitStatus(peer.chain, block) = "accepted"
    /\ peer' = [peer EXCEPT !.chain = Append(@, block)]
    /\ UNCHANGED <<chain, wallets, usernames, counters, spent_key_images,
                    mempool, stash_pool, active_sessions,
                    pending_timelocked, last_prune_block, zh_height, lock,
                    pc, phases, new_block, current_height, io_error, disk,
                    sent, nacl_available, next_secret, via, sync_pc,
                    requests, withdrawals, veil_accepted, ephemeral_msgs,
                    reply, save_pc, written, io_log, sa_pc, sa_data,
                    sa_target, sa_backup, sa_temp, sa_prev, now, validators,
                    bans, pending_requests, l1_commitments, trigger_pc,
                    trigger_request, trigger_todo, zh_current_height,
                    last_commitment_height, l3_blocks, l2_blocks,
                    submitted_proofs, speed_winners, difficulty,
                    block_times, batch, breaker>>
    /\ existed' = Observed
    /\ round' = "none"

\* sync_from_peer run by the peer node against this node: the next block of
\* /api/blocks/range is appended and its 'transfer' transactions are applied
\* to the peer's wallets
peer_sync_block ==
    /\ lock = "free"
    /\ Len(chain) > Len(peer.chain)
    /\ LET block == blocks_range(Len(peer.chain))
       IN /\ ~block.pruned
          /\ PreviousHashOk(block, peer.chain[Len(peer.chain)])
          /\ peer' = [peer EXCEPT !.chain = Append(@, block),
                                  !.wallets = ApplyTransfers(@, block.transactions)]
    /\ UNCHANGED <<chain, wallets, usernames, counters, spent_key_images,
                    mempool, stash_pool, active_sessions,
                    pending_timelocked, last_prune_block, zh_height, lock,
                    pc, phases, new_block, current_height, io_error, disk,
                    sent, nacl_available, next_secret, via, sync_pc,
                    requests, withdrawals, veil_accepted, ephemeral_msgs,
                    reply, save_pc, written, io_log, sa_pc, sa_data,
                    sa_target, sa_backup, sa_temp, sa_prev, now, validators,
                    bans, pending_requests, l1_commitments, trigger_pc,
                    trigger_request, trigger_todo, zh_current_height,
                    last_commitment_height, l3_blocks, l2_blocks,
                    submitted_proofs, speed_winners, difficulty,
                    block_times, batch, breaker>>
    /\ existed' = Observed
    /\ round' = "none"

(***************************************************************************)
(* auto_mining_loop, one step per part of its critical section.            *)
(***************************************************************************)
\* every active session with a wallet, whatever its balance
SessionsWithWallet == {a \in active_sessions : a \in DOMAIN wallets}

\* eligible_miners: active sessions with a wallet that register_miner accepts
EligibleMiners ==
    {a \in active_sessions :
        a \in DOMAIN wallets /\ wallets[a].balance >= MIN_BALANCE_FOR_MINING}

\* block_data['rewards'] as wins per address: submit_proof returns None for a
\* miner registered in the same instant, so mine_block fills all the
\* WINNERS_PER_BLOCK slots by select_lottery_winners (random, with
\* replacement).  Of the random outcomes the model explores those in which
\* one miner wins every slot.
RewardSplits(miners) ==
    {w \in [miners -> {0, WINNERS_PER_BLOCK}] :
        SumOver(w, miners) = WINNERS_PER_BLOCK}

\* "Distribute rewards": the wallets after the loop over block_data['rewards']
RECURSIVE Distribute(_, _, _)
Distribute(w, wins, miners) ==
    IF miners = {} THEN w
    ELSE LET a == CHOOSE x \in miners : TRUE
             reward == wins[a] * REWARD_PER_WINNER
             actual_reward == IF w[a].level >= GOD_LEVEL THEN reward * 2 ELSE reward
         IN Distribute(IF wins[a] > 0 THEN Credit(w, a, actual_reward) ELSE w,
                       wins, miners \ {a})

\* block_emission of the round
BlockEmission(w, wins, miners) ==
    SumOver([a \in miners |->
                IF wins[a] = 0 THEN 0
                ELSE IF w[a].level >= GOD_LEVEL
                     THEN 2 * wins[a] * REWARD_PER_WINNER
                     ELSE wins[a] * REWARD_PER_WINNER], miners)

\* first n elements of a list, list[:n]
Take(seq, n) == SubSeq(seq, 1, IF Len(seq) < n THEN Len(seq) ELSE n)
\* list[n:]
Drop(seq, n) == SubSeq(seq, (IF Len(seq) < n THEN Len(seq) ELSE n) + 1, Len(seq))
\* the n oldest elements of a list
Oldest(seq, n) == SubSeq(seq, 1, IF Len(seq) < n THEN Len(seq) ELSE n)
\* list[-n:]
Last(seq, n) == SubSeq(seq, (IF Len(seq) < n THEN 0 ELSE Len(seq) - n) + 1, Len(seq))

\* key images the loop records for the 'veil_transfer' entries of a block
BlockKeyImages(txs) ==
    {txs[i].key_image : i \in {j \in 1 .. Len(txs) : txs[j].type = "veil_transfer"}}

\* the lock is taken; miners are registered, the block is mined by the
\* coordinator and the rewards are distributed
mine_rewards ==
    /\ pc = "sleep"
    /\ lock = "free"
    /\ Len(chain) < MaxHeight
    /\ current_height < MaxRounds
    /\ IF EligibleMiners = {}
       THEN /\ round' = "no_miners"                                \* continue
            /\ UNCHANGED <<wallets, counters, current_height, phases, lock, pc>>
       ELSE \E wins \in RewardSplits(EligibleMiners) :
            /\ round' = "mining"
            /\ wallets' = Distribute(wallets, wins, EligibleMiners)
            /\ counters' = [counters EXCEPT !.emitted_mining =
                               @ + BlockEmission(wallets, wins, EligibleMiners)]
            /\ current_height' = current_height + 1
            /\ phases' = {"rewards"}
            /\ lock' = "miner"
            /\ pc' = "assemble"
    /\ UNCHANGED <<chain, usernames, spent_key_images, mempool, stash_pool,
                    active_sessions, pending_timelocked, last_prune_block,
                    zh_height, new_block, io_error, disk, sent, peer,
                    nacl_available, next_secret, via, sync_pc, requests,
                    withdrawals, veil_accepted, ephemeral_msgs, reply,
                    save_pc, written, io_log, sa_pc, sa_data, sa_target,
                    sa_backup, sa_temp, sa_prev, now, validators, bans,
                    pending_requests, l1_commitments, trigger_pc,
                    trigger_request, trigger_todo, zh_current_height,
                    last_commitment_height, l3_blocks, l2_blocks,
                    submitted_proofs, speed_winners, difficulty,
                    block_times, batch, breaker>>
    /\ existed' = Observed

\* new_block is built and appended; key images are recorded; the mempool
\* and the ephemeral messages are trimmed (S.pending_txs, filled by the games
\* and the referrals, is left out).  S.chain[-1]['hash'] raises KeyError when the last block has no
\* 'hash': the loop's handler prints the error and the lock is released.
mine_assemble ==
    /\ pc = "assemble"
    /\ LET last == chain[Len(chain)]
           txs == Take(mempool, MEMPOOL_PER_BLOCK)
           block == [index |-> Len(chain),
                     previous_hash |-> last.hash,
                     hash |-> BlockHash(Len(chain), last.hash, current_height,
                                        Len(txs), current_height - 1),
                     transactions |-> txs,
                     ephemeral_msgs |-> Take(ephemeral_msgs, EPHEMERAL_PER_BLOCK),
                     miner |-> "poet_anonymous",
                     pruned |-> FALSE]
           rest == Drop(mempool, MEMPOOL_PER_BLOCK)
       IN IF last.hash = NoHash
          THEN /\ lock' = "free"
               /\ pc' = "sleep"
               /\ UNCHANGED <<chain, new_block, spent_key_images, mempool, via, phases,
                              ephemeral_msgs>>
          ELSE /\ chain' = Append(chain, block)
               /\ new_block' = block.index
               /\ spent_key_images' = spent_key_images \cup BlockKeyImages(txs)
               /\ mempool' = IF Len(rest) > MEMPOOL_CAP
                             THEN Last(rest, MEMPOOL_CAP) ELSE rest
               /\ ephemeral_msgs' = Drop(ephemeral_msgs, EPHEMERAL_PER_BLOCK)
               /\ via' = via \cup {"mined"}
               /\ phases' = phases \cup {"appended", "key_images", "mempool"}
               /\ pc' = "timelock"
               /\ UNCHANGED lock
    /\ UNCHANGED <<wallets, usernames, counters, stash_pool,
                    active_sessions, pending_timelocked, last_prune_block,
                    zh_height, current_height, io_error, disk, sent, peer,
                    nacl_available, next_secret, sync_pc, requests,
                    withdrawals, veil_accepted, reply, save_pc, written,
                    io_log, sa_pc, sa_data, sa_target, sa_backup, sa_temp,
                    sa_prev, now, validators, bans, pending_requests,
                    l1_commitments, trigger_pc, trigger_request,
                    trigger_todo, zh_current_height, last_commitment_height,
                    l3_blocks, l2_blocks, submitted_proofs, speed_winners,
                    difficulty, block_times, batch, breaker>>
    /\ existed' = Observed
    /\ round' = "none"

\* a loop that leaves the processed transfers in pending_timelocked
KeepProcessed(pending, to_remove) == pending

\* "Remove activated/failed": for tx_id in to_remove: del self.pending_timelocked[tx_id]
RemoveProcessed(pending, to_remove) == pending \ to_remove

\* S.timelock.process_unlocked_transactions(len(S.chain)); its save() raises
\* when the data directory fails
mine_timelock ==
    /\ pc = "timelock"
    /\ LET activated == Unlocked(Len(chain))
       IN /\ wallets' = ExecuteWallets(wallets, activated)
          /\ chain' = ExecuteChain(chain, activated)
          /\ pending_timelocked' = RemoveProcessed(pending_timelocked, activated)
          /\ io_log' = IF activated # {} THEN io_log \cup {Io("disk", TRUE)} ELSE io_log
          /\ IF activated # {} /\ ~TimelockSaveOk
             THEN /\ lock' = "free"
                  /\ pc' = "sleep"
                  /\ UNCHANGED phases
             ELSE /\ phases' = phases \cup {"timelocks"}
                  /\ pc' = "prune"
                  /\ UNCHANGED lock
    /\ UNCHANGED <<usernames, counters, spent_key_images, mempool,
                    stash_pool, active_sessions, last_prune_block,
                    zh_height, new_block, current_height, io_error, disk,
                    sent, peer, nacl_available, next_secret, via, sync_pc,
                    requests, withdrawals, veil_accepted, ephemeral_msgs,
                    reply, save_pc, written, sa_pc, sa_data, sa_target,
                    sa_backup, sa_temp, sa_prev, now, validators, bans,
                    pending_requests, l1_commitments, trigger_pc,
                    trigger_request, trigger_todo, zh_current_height,
                    last_commitment_height, l3_blocks, l2_blocks,
                    submitted_proofs, speed_winners, difficulty,
                    block_times, batch, breaker>>
    /\ existed' = Observed
    /\ round' = "none"

\* BlockchainPruner.should_prune
should_prune(current_height_) ==
    /\ ~(current_height_ < FULL_BLOCKS_KEEP + PRUNE_MARGIN)
    /\ current_height_ - last_prune_block >= PRUNING_CHECK_INTERVAL

\* a pruned block that does not keep the hash of the block
PrunedWithoutHash(block) ==
    [index |-> block.index, previous_hash |-> block.previous_hash,
     hash |-> NoHash, miner |-> block.miner,
     transaction_count |-> Len(block.transactions), pruned |-> TRUE]

\* BlockchainPruner._create_pruned_block
create_pruned_block(block) ==
    [index |-> block.index, previous_hash |-> block.previous_hash,
     hash |-> block.hash, miner |-> block.miner,
     transaction_count |-> Len(block.transactions), pruned |-> TRUE]

\* the chain after the loop of prune_old_blocks over
\* range(last_prune_block, prune_before)
PrunedChain(c, prune_before) ==
    [i \in 1 .. Len(c) |->
        IF (i - 1) >= last_prune_block /\ (i - 1) < prune_before /\ ~c[i].pruned
        THEN create_pruned_block(c[i])
        ELSE c[i]]

\* "Blockchain pruning (automatic)": prune_old_blocks ends with state.save(),
\* which raises when the data directory fails
mine_prune ==
    /\ pc = "prune"
    /\ IF should_prune(Len(chain))
       THEN LET prune_before == Len(chain) - FULL_BLOCKS_KEEP
            IN /\ chain' = PrunedChain(chain, prune_before)
               /\ last_prune_block' = prune_before
               /\ io_log' = io_log \cup {Io("disk", TRUE)}
               /\ disk' = Saved(chain', wallets, spent_key_images, stash_pool, counters)
               /\ IF SaveOk
                  THEN pc' = "zero_history" /\ UNCHANGED lock
                  ELSE pc' = "sleep" /\ lock' = "free"
       ELSE /\ pc' = "zero_history"
            /\ UNCHANGED <<chain, last_prune_block, disk, io_log, lock>>
    /\ UNCHANGED <<wallets, usernames, counters, spent_key_images, mempool,
                    stash_pool, active_sessions, pending_timelocked,
                    zh_height, phases, new_block, current_height, io_error,
                    sent, peer, nacl_available, next_secret, via, sync_pc,
                    requests, withdrawals, veil_accepted, ephemeral_msgs,
                    reply, save_pc, written, sa_pc, sa_data, sa_target,
                    sa_backup, sa_temp, sa_prev, now, validators, bans,
                    pending_requests, l1_commitments, trigger_pc,
                    trigger_request, trigger_todo, zh_current_height,
                    last_commitment_height, l3_blocks, l2_blocks,
                    submitted_proofs, speed_winners, difficulty,
                    block_times, batch, breaker>>
    /\ existed' = Observed
    /\ round' = "none"

\* S.zero_history.add_block(new_block, ...); the lock is released
mine_zero_history ==
    /\ pc = "zero_history"
    /\ zh_height' = zh_height \cup {new_block}
    /\ phases' = phases \cup {"zero_history"}
    /\ lock' = "free"
    /\ pc' = "save"
    /\ UNCHANGED <<chain, wallets, usernames, counters, spent_key_images,
                    mempool, stash_pool, active_sessions,
                    pending_timelocked, last_prune_block, new_block,
                    current_height, io_error, disk, sent, peer,
                    nacl_available, next_secret, via, sync_pc, requests,
                    withdrawals, veil_accepted, ephemeral_msgs, reply,
                    save_pc, written, io_log, sa_pc, sa_data, sa_target,
                    sa_backup, sa_temp, sa_prev, now, validators, bans,
                    pending_requests, l1_commitments, trigger_pc,
                    trigger_request, trigger_todo, zh_current_height,
                    last_commitment_height, l3_blocks, l2_blocks,
                    submitted_proofs, speed_winners, difficulty,
                    block_times, batch, breaker>>
    /\ existed' = Observed
    /\ round' = "none"

\* "save() OUTSIDE lock": try: S.save() except Exception: print(...)
mine_save ==
    /\ pc = "save"
    /\ save_pc = 0
    /\ io_log' = io_log \cup {Io("disk", FALSE)}
    /\ disk' = Saved(chain, wallets, spent_key_images, stash_pool, counters)
    /\ pc' = "broadcast"
    /\ UNCHANGED <<chain, wallets, usernames, counters, spent_key_images,
                    mempool, stash_pool, active_sessions,
                    pending_timelocked, last_prune_block, zh_height, lock,
                    phases, new_block, current_height, io_error, sent, peer,
                    nacl_available, next_secret, via, sync_pc, requests,
                    withdrawals, veil_accepted, ephemeral_msgs, reply,
                    save_pc, written, sa_pc, sa_data, sa_target, sa_backup,
                    sa_temp, sa_prev, now, validators, bans,
                    pending_requests, l1_commitments, trigger_pc,
                    trigger_request, trigger_todo, zh_current_height,
                    last_commitment_height, l3_blocks, l2_blocks,
                    submitted_proofs, speed_winners, difficulty,
                    block_times, batch, breaker>>
    /\ existed' = Observed
    /\ round' = "none"

\* The same S.save(), one save_atomic call per step: the loop holds no lock,
\* so request handlers run between two of its writes.
\* the loop enters State.save
save_begin ==
    /\ pc = "save"
    /\ save_pc = 0
    /\ save_pc' = 1
    /\ written' = <<>>
    /\ existed' = {StoreState}
    /\ UNCHANGED <<chain, wallets, usernames, counters, spent_key_images,
                    mempool, stash_pool, active_sessions,
                    pending_timelocked, last_prune_block, zh_height, lock,
                    pc, phases, new_block, current_height, io_error, disk,
                    sent, peer, nacl_available, next_secret, via, sync_pc,
                    requests, withdrawals, veil_accepted, ephemeral_msgs,
                    reply, io_log, sa_pc, sa_data, sa_target, sa_backup,
                    sa_temp, sa_prev, now, validators, bans,
                    pending_requests, l1_commitments, trigger_pc,
                    trigger_request, trigger_todo, zh_current_height,
                    last_commitment_height, l3_blocks, l2_blocks,
                    submitted_proofs, speed_winners, difficulty,
                    block_times, batch, breaker>>
    /\ round' = "none"

\* one save_atomic(file, collection) of State.save: the collection as it is
\* in memory now replaces the file; a failing write raises, which ends the
\* save with the remaining files unwritten
save_file ==
    /\ save_pc \in 1 .. Len(Files)
    /\ IF SaveOk
       THEN /\ disk' = [disk EXCEPT ![Files[save_pc]] = StoreState[Files[save_pc]]]
            /\ written' = [f \in DOMAIN written \cup {Files[save_pc]} |->
                              IF f = Files[save_pc] THEN StoreState[f]
                              ELSE written[f]]
            /\ save_pc' = save_pc + 1
       ELSE /\ save_pc' = Len(Files) + 1
            /\ UNCHANGED <<disk, written>>
    /\ io_log' = io_log \cup {Io("disk", FALSE)}
    /\ UNCHANGED <<chain, wallets, usernames, counters, spent_key_images,
                    mempool, stash_pool, active_sessions,
                    pending_timelocked, last_prune_block, zh_height, lock,
                    pc, phases, new_block, current_height, io_error, sent,
                    peer, nacl_available, next_secret, via, sync_pc,
                    requests, withdrawals, veil_accepted, ephemeral_msgs,
                    reply, sa_pc, sa_data, sa_target, sa_backup, sa_temp,
                    sa_prev, now, validators, bans, pending_requests,
                    l1_commitments, trigger_pc, trigger_request,
                    trigger_todo, zh_current_height, last_commitment_height,
                    l3_blocks, l2_blocks, submitted_proofs, speed_winners,
                    difficulty, block_times, batch, breaker>>
    /\ existed' = Observed
    /\ round' = "none"

\* State.save has returned or raised (the loop prints the exception)
save_end ==
    /\ save_pc = Len(Files) + 1
    /\ save_pc' = 0
    /\ written' = <<>>
    /\ pc' = "broadcast"
    /\ UNCHANGED <<chain, wallets, usernames, counters, spent_key_images,
                    mempool, stash_pool, active_sessions,
                    pending_timelocked, last_prune_block, zh_height, lock,
                    phases, new_block, current_height, io_error, disk, sent,
                    peer, nacl_available, next_secret, via, sync_pc,
                    requests, withdrawals, veil_accepted, ephemeral_msgs,
                    reply, io_log, sa_pc, sa_data, sa_target, sa_backup,
                    sa_temp, sa_prev, now, validators, bans,
                    pending_requests, l1_commitments, trigger_pc,
                    trigger_request, trigger_todo, zh_current_height,
                    last_commitment_height, l3_blocks, l2_blocks,
                    submitted_proofs, speed_winners, difficulty,
                    block_times, batch, breaker>>
    /\ existed' = Observed
    /\ round' = "none"

\* set(key_images_list)
set(key_images_list) == Range(key_images_list)

\* w.get('username')
Username(w) == IF "username" \in DOMAIN w THEN w.username ELSE ""

\* State.load, "Also rebuild username -> address from wallet data": every
\* wallet whose username is not a key of the loaded usernames is entered
\* under it (two such wallets with one name: the later of the dict wins)
RebuildUsernames(loaded_names, w) ==
    LET missing == {Username(w[addr]) : addr \in DOMAIN w} \ (DOMAIN loaded_names \cup {""})
    IN [uname \in DOMAIN loaded_names \cup missing |->
           IF uname \in DOMAIN loaded_names THEN loaded_names[uname]
           ELSE CHOOSE addr \in DOMAIN w : Username(w[addr]) = uname]

\* The process is killed and started again: State.__init__ and State.load
\* read the collections back from their files; the mempool, the sessions,
\* the lock and the position of every thread are those of a fresh process.
\* (timelock.json, the pruning state and the zero-history files are taken to
\* hold what memory held.)
crash_reload ==
    /\ chain' = disk.chain
    /\ wallets' = disk.wallets
    /\ usernames' = RebuildUsernames(disk.usernames, disk.wallets)
    /\ spent_key_images' = set(disk.key_images)
    /\ stash_pool' = disk.stash_pool
    /\ counters' = disk.counters
    /\ mempool' = <<>>
    /\ active_sessions' = {}
    /\ lock' = "free"
    /\ pc' = "sleep"
    /\ sync_pc' = "idle"
    /\ phases' = AllPhases
    /\ requests' = [t \in 1 .. MaxRequests |-> NoRequest]
    /\ reply' = NoReply
    /\ save_pc' = 0
    /\ written' = <<>>
    /\ UNCHANGED <<pending_timelocked, last_prune_block, zh_height,
                    new_block, current_height, io_error, disk, sent, peer,
                    nacl_available, next_secret, via, withdrawals,
                    veil_accepted, ephemeral_msgs, io_log, sa_pc, sa_data,
                    sa_target, sa_backup, sa_temp, sa_prev, now, validators,
                    bans, pending_requests, l1_commitments, trigger_pc,
                    trigger_request, trigger_todo, zh_current_height,
                    last_commitment_height, l3_blocks, l2_blocks,
                    submitted_proofs, speed_winners, difficulty,
                    block_times, batch, breaker>>
    /\ existed' = Observed
    /\ round' = "none"

\* the block of the chain at a 0-based index is held by chain.json
Durable(index) ==
    /\ Len(disk.chain) > index
    /\ disk.chain[index + 1].hash = chain[index + 1].hash

\* `with S.lock: broadcast_block_to_peers(new_block)`
broadcast_block_to_peers ==
    /\ pc = "broadcast"
    /\ lock = "free"
    /\ sent' = sent \cup {[block |-> blocks_range(new_block),
                           durable |-> Durable(new_block)]}
    /\ io_log' = io_log \cup {Io("network", TRUE)}
    /\ pc' = "sleep"
    /\ UNCHANGED <<chain, wallets, usernames, counters, spent_key_images,
                    mempool, stash_pool, active_sessions,
                    pending_timelocked, last_prune_block, zh_height, lock,
                    phases, new_block, current_height, io_error, disk, peer,
                    nacl_available, next_secret, via, sync_pc, requests,
                    withdrawals, veil_accepted, ephemeral_msgs, reply,
                    save_pc, written, sa_pc, sa_data, sa_target, sa_backup,
                    sa_temp, sa_prev, now, validators, bans,
                    pending_requests, l1_commitments, trigger_pc,
                    trigger_request, trigger_todo, zh_current_height,
                    last_commitment_height, l3_blocks, l2_blocks,
                    submitted_proofs, speed_winners, difficulty,
                    block_times, batch, breaker>>
    /\ existed' = Observed
    /\ round' = "none"

(***************************************************************************)
(* StateManager.save_atomic on one file, step by step.  Every step may     *)
(* fail (the exception handler removes the temporary file and re-raises)   *)
(* and the process may be killed at every step.  PATCH_atomic_writes.py    *)
(* has the same steps without the backup copy.                             *)
(***************************************************************************)
Versions == 1 .. MaxVersions

\* save_atomic(filename, data) is called
save_atomic(data, with_backup) ==
    /\ sa_pc = "idle"
    /\ sa_data' = data
    /\ sa_prev' = sa_target
    /\ sa_temp' = NoFile
    /\ sa_pc' = IF with_backup /\ sa_target.exists THEN "backup" ELSE "mkstemp"
    /\ UNCHANGED <<chain, wallets, usernames, counters, spent_key_images,
                    mempool, stash_pool, active_sessions,
                    pending_timelocked, last_prune_block, zh_height, lock,
                    pc, phases, new_block, current_height, io_error, disk,
                    sent, peer, nacl_available, next_secret, via, sync_pc,
                    requests, withdrawals, veil_accepted, ephemeral_msgs,
                    reply, save_pc, written, io_log, sa_target, sa_backup,
                    now, validators, bans, pending_requests, l1_commitments,
                    trigger_pc, trigger_request, trigger_todo,
                    zh_current_height, last_commitment_height, l3_blocks,
                    l2_blocks, submitted_proofs, speed_winners, difficulty,
                    block_times, batch, breaker>>
    /\ existed' = Observed
    /\ round' = "none"

\* "1. Backup": shutil.copy2(filepath, backup_path); a failure is logged and
\* the save goes on, with whatever the copy left in the backup file
save_atomic_backup(ok) ==
    /\ sa_pc = "backup"
    /\ sa_backup' = IF ok THEN sa_target ELSE Part(sa_target.v)
    /\ sa_pc' = "mkstemp"
    /\ UNCHANGED <<chain, wallets, usernames, counters, spent_key_images,
                    mempool, stash_pool, active_sessions,
                    pending_timelocked, last_prune_block, zh_height, lock,
                    pc, phases, new_block, current_height, io_error, disk,
                    sent, peer, nacl_available, next_secret, via, sync_pc,
                    requests, withdrawals, veil_accepted, ephemeral_msgs,
                    reply, save_pc, written, io_log, sa_data, sa_target,
                    sa_temp, sa_prev, now, validators, bans,
                    pending_requests, l1_commitments, trigger_pc,
                    trigger_request, trigger_todo, zh_current_height,
                    last_commitment_height, l3_blocks, l2_blocks,
                    submitted_proofs, speed_winners, difficulty,
                    block_times, batch, breaker>>
    /\ existed' = Observed
    /\ round' = "none"

\* "2." tempfile.mkstemp(dir=self.base_dir, ...): an empty file; a failure
\* raises before temp_path is bound
save_atomic_mkstemp(ok) ==
    /\ sa_pc = "mkstemp"
    /\ IF ok
       THEN sa_temp' = Part(sa_data) /\ sa_pc' = "write"
       ELSE sa_temp' = NoFile /\ sa_pc' = "idle"
    /\ UNCHANGED <<chain, wallets, usernames, counters, spent_key_images,
                    mempool, stash_pool, active_sessions,
                    pending_timelocked, last_prune_block, zh_height, lock,
                    pc, phases, new_block, current_height, io_error, disk,
                    sent, peer, nacl_available, next_secret, via, sync_pc,
                    requests, withdrawals, veil_accepted, ephemeral_msgs,
                    reply, save_pc, written, io_log, sa_data, sa_target,
                    sa_backup, sa_prev, now, validators, bans,
                    pending_requests, l1_commitments, trigger_pc,
                    trigger_request, trigger_todo, zh_current_height,
                    last_commitment_height, l3_blocks, l2_blocks,
                    submitted_proofs, speed_winners, difficulty,
                    block_times, batch, breaker>>
    /\ existed' = Observed
    /\ round' = "none"

\* a save that would write the text into the target file itself
TargetWrittenInPlace(target, text) == text
\* the target file while json.dump writes: the text goes to the temporary file
TargetWhileWriting(target, text) == target

\* json.dump(data, f); f.flush(); os.fsync(f.fileno())
save_atomic_write(ok) ==
    /\ sa_pc = "write"
    /\ sa_temp' = IF ok THEN Whole(sa_data) ELSE Part(sa_data)
    /\ sa_target' = TargetWhileWriting(sa_target, sa_temp')
    /\ sa_pc' = IF ok THEN "replace" ELSE "except"
    /\ UNCHANGED <<chain, wallets, usernames, counters, spent_key_images,
                    mempool, stash_pool, active_sessions,
                    pending_timelocked, last_prune_block, zh_height, lock,
                    pc, phases, new_block, current_height, io_error, disk,
                    sent, peer, nacl_available, next_secret, via, sync_pc,
                    requests, withdrawals, veil_accepted, ephemeral_msgs,
                    reply, save_pc, written, io_log, sa_data, sa_backup,
                    sa_prev, now, validators, bans, pending_requests,
                    l1_commitments, trigger_pc, trigger_request,
                    trigger_todo, zh_current_height, last_commitment_height,
                    l3_blocks, l2_blocks, submitted_proofs, speed_winners,
                    difficulty, block_times, batch, breaker>>
    /\ existed' = Observed
    /\ round' = "none"

\* "3. Atomic rename": os.replace(temp_path, filepath)
save_atomic_replace(ok) ==
    /\ sa_pc = "replace"
    /\ IF ok
       THEN /\ sa_target' = sa_temp
            /\ sa_temp' = NoFile
            /\ sa_pc' = "idle"
       ELSE /\ sa_pc' = "except"
            /\ UNCHANGED <<sa_target, sa_temp>>
    /\ UNCHANGED <<chain, wallets, usernames, counters, spent_key_images,
                    mempool, stash_pool, active_sessions,
                    pending_timelocked, last_prune_block, zh_height, lock,
                    pc, phases, new_block, current_height, io_error, disk,
                    sent, peer, nacl_available, next_secret, via, sync_pc,
                    requests, withdrawals, veil_accepted, ephemeral_msgs,
                    reply, save_pc, written, io_log, sa_data, sa_backup,
                    sa_prev, now, validators, bans, pending_requests,
                    l1_commitments, trigger_pc, trigger_request,
                    trigger_todo, zh_current_height, last_commitment_height,
                    l3_blocks, l2_blocks, submitted_proofs, speed_winners,
                    difficulty, block_times, batch, breaker>>
    /\ existed' = Observed
    /\ round' = "none"

\* except Exception: os.unlink(temp_path) (its own failure is ignored); raise
save_atomic_except(ok) ==
    /\ sa_pc = "except"
    /\ sa_temp' = IF ok THEN NoFile ELSE sa_temp
    /\ sa_pc' = "idle"
    /\ UNCHANGED <<chain, wallets, usernames, counters, spent_key_images,
                    mempool, stash_pool, active_sessions,
                    pending_timelocked, last_prune_block, zh_height, lock,
                    pc, phases, new_block, current_height, io_error, disk,
                    sent, peer, nacl_available, next_secret, via, sync_pc,
                    requests, withdrawals, veil_accepted, ephemeral_msgs,
                    reply, save_pc, written, io_log, sa_data, sa_target,
                    sa_backup, sa_prev, now, validators, bans,
                    pending_requests, l1_commitments, trigger_pc,
                    trigger_request, trigger_todo, zh_current_height,
                    last_commitment_height, l3_blocks, l2_blocks,
                    submitted_proofs, speed_winners, difficulty,
                    block_times, batch, breaker>>
    /\ existed' = Observed
    /\ round' = "none"

\* the process is killed inside save_atomic: the files stay as they are
save_atomic_killed ==
    /\ sa_pc # "idle"
    /\ sa_pc' = "idle"
    /\ UNCHANGED <<chain, wallets, usernames, counters, spent_key_images,
                    mempool, stash_pool, active_sessions,
                    pending_timelocked, last_prune_block, zh_height, lock,
                    pc, phases, new_block, current_height, io_error, disk,
                    sent, peer, nacl_available, next_secret, via, sync_pc,
                    requests, withdrawals, veil_accepted, ephemeral_msgs,
                    reply, save_pc, written, io_log, sa_data, sa_target,
                    sa_backup, sa_temp, sa_prev, now, validators, bans,
                    pending_requests, l1_commitments, trigger_pc,
                    trigger_request, trigger_todo, zh_current_height,
                    last_commitment_height, l3_blocks, l2_blocks,
                    submitted_proofs, speed_winners, difficulty,
                    block_times, batch, breaker>>
    /\ existed' = Observed
    /\ round' = "none"

(***************************************************************************)
(* StateManager.load_with_backup and State.load on one file of the data    *)
(* directory.  A file whose text json.load rejects with JSONDecodeError is *)
(* one that is not complete.                                               *)
(***************************************************************************)
\* one record of the 'LAC.StateManager' logger
Log(level, text) == [level |-> level, text |-> text]

\* a loader that reads the main file only
load_main_only(filepath, backup_path) ==
    IF filepath.exists /\ filepath.complete
    THEN [data |-> filepath.v, log |-> {Log("debug", "Loaded")}]
    ELSE [data |-> None, log |-> {}]

\* StateManager.load_with_backup(filename): the data it returns and what it logs
load_with_backup(filepath, backup_path) ==
    IF filepath.exists
    THEN IF filepath.complete
         THEN [data |-> filepath.v, log |-> {Log("debug", "Loaded")}]
         ELSE IF backup_path.exists
              THEN IF backup_path.complete
                   THEN [data |-> backup_path.v,
                         log |-> {Log("error", "Main corrupted"),
                                  Log("warning", "Restored from backup")}]
                   ELSE [data |-> None,
                         log |-> {Log("error", "Main corrupted"),
                                  Log("error", "Backup also corrupted")}]
              ELSE [data |-> None, log |-> {Log("error", "Main corrupted")}]
    ELSE [data |-> None, log |-> {}]

\* Python's "x or default" on a loaded collection
OrDefault(x, default) == IF x = None \/ x = Empty THEN default ELSE x

\* State.load: self.chain = self.state_manager.load_with_backup('chain.json') or []
\* (the reply keeps the two files as the load found them)
load ==
    /\ sa_pc = "idle"
    /\ LET result == load_with_backup(sa_target, sa_backup)
       IN reply' = [handler |-> "load", main |-> sa_target, backup |-> sa_backup,
                    loaded |-> OrDefault(result.data, Empty), log |-> result.log]
    /\ UNCHANGED <<chain, wallets, usernames, counters, spent_key_images,
                    mempool, stash_pool, active_sessions,
                    pending_timelocked, last_prune_block, zh_height, lock,
                    pc, phases, new_block, current_height, io_error, disk,
                    sent, peer, nacl_available, next_secret, via, sync_pc,
                    requests, withdrawals, veil_accepted, ephemeral_msgs,
                    save_pc, written, io_log, sa_pc, sa_data, sa_target,
                    sa_backup, sa_temp, sa_prev, now, validators, bans,
                    pending_requests, l1_commitments, trigger_pc,
                    trigger_request, trigger_todo, zh_current_height,
                    last_commitment_height, l3_blocks, l2_blocks,
                    submitted_proofs, speed_winners, difficulty,
                    block_times, batch, breaker>>
    /\ existed' = Observed
    /\ round' = "none"

\* the main file loses part of its text while the node is down
corrupt_main ==
    /\ sa_pc = "idle"
    /\ sa_target.exists
    /\ sa_target.complete
    /\ sa_target' = Part(sa_target.v)
    /\ UNCHANGED <<chain, wallets, usernames, counters, spent_key_images,
                    mempool, stash_pool, active_sessions,
                    pending_timelocked, last_prune_block, zh_height, lock,
                    pc, phases, new_block, current_height, io_error, disk,
                    sent, peer, nacl_available, next_secret, via, sync_pc,
                    requests, withdrawals, veil_accepted, ephemeral_msgs,
                    reply, save_pc, written, io_log, sa_pc, sa_data,
                    sa_backup, sa_temp, sa_prev, now, validators, bans,
                    pending_requests, l1_commitments, trigger_pc,
                    trigger_request, trigger_todo, zh_current_height,
                    last_commitment_height, l3_blocks, l2_blocks,
                    submitted_proofs, speed_winners, difficulty,
                    block_times, batch, breaker>>
    /\ existed' = Observed
    /\ round' = "none"

\* the backup file loses part of its text while the node is down
corrupt_backup ==
    /\ sa_pc = "idle"
    /\ sa_backup.exists
    /\ sa_backup.complete
    /\ sa_backup' = Part(sa_backup.v)
    /\ UNCHANGED <<chain, wallets, usernames, counters, spent_key_images,
                    mempool, stash_pool, active_sessions,
                    pending_timelocked, last_prune_block, zh_height, lock,
                    pc, phases, new_block, current_height, io_error, disk,
                    sent, peer, nacl_available, next_secret, via, sync_pc,
                    requests, withdrawals, veil_accepted, ephemeral_msgs,
                    reply, save_pc, written, io_log, sa_pc, sa_data,
                    sa_target, sa_temp, sa_prev, now, validators, bans,
                    pending_requests, l1_commitments, trigger_pc,
                    trigger_request, trigger_todo, zh_current_height,
                    last_commitment_height, l3_blocks, l2_blocks,
                    submitted_proofs, speed_winners, difficulty,
                    block_times, batch, breaker>>
    /\ existed' = Observed
    /\ round' = "none"

(***************************************************************************)
(* BatchProcessor (PATCH_performance.py).  self.lock is a threading.Lock:  *)
(* `with self.lock` waits until the lock is free, whichever thread holds   *)
(* it.  batch.at[t] is the position of thread t: "idle", "add_transaction" *)
(* and "flush" at the `with self.lock` of a call the thread has made, and  *)
(* "add_flush" at the `with self.lock` of the flush that add_transaction   *)
(* calls.  batch.returned[t] is what the thread's last call returned.      *)
(***************************************************************************)
\* a thread calls add_transaction(tx)
add_transaction_call(t, tx) ==
    /\ batch.at[t] = "idle"
    /\ batch' = [batch EXCEPT !.at[t] = "add_transaction", !.tx[t] = tx]
    /\ UNCHANGED <<chain, wallets, usernames, counters, spent_key_images,
                    mempool, stash_pool, active_sessions,
                    pending_timelocked, last_prune_block, zh_height, lock,
                    pc, phases, new_block, current_height, io_error, disk,
                    sent, peer, nacl_available, next_secret, via, sync_pc,
                    requests, withdrawals, veil_accepted, ephemeral_msgs,
                    reply, save_pc, written, io_log, sa_pc, sa_data,
                    sa_target, sa_backup, sa_temp, sa_prev, now, validators,
                    bans, pending_requests, l1_commitments, trigger_pc,
                    trigger_request, trigger_todo, zh_current_height,
                    last_commitment_height, l3_blocks, l2_blocks,
                    submitted_proofs, speed_winners, difficulty,
                    block_times, breaker>>
    /\ existed' = Observed
    /\ round' = "none"

\* add_transaction: `with self.lock`, the append, and either the call of
\* flush with the lock held or the end of the `with` and `return None`
add_transaction(t) ==
    /\ batch.at[t] = "add_transaction"
    /\ batch.lock = "free"
    /\ LET pending == Append(batch.pending_transactions, batch.tx[t])
       IN  IF Len(pending) >= batch_size
           THEN batch' = [batch EXCEPT !.pending_transactions = pending,
                                       !.lock = t,
                                       !.at[t] = "add_flush"]
           ELSE batch' = [batch EXCEPT !.pending_transactions = pending,
                                       !.at[t] = "idle",
                                       !.returned[t] = ReturnNone]
    /\ UNCHANGED <<chain, wallets, usernames, counters, spent_key_images,
                    mempool, stash_pool, active_sessions,
                    pending_timelocked, last_prune_block, zh_height, lock,
                    pc, phases, new_block, current_height, io_error, disk,
                    sent, peer, nacl_available, next_secret, via, sync_pc,
                    requests, withdrawals, veil_accepted, ephemeral_msgs,
                    reply, save_pc, written, io_log, sa_pc, sa_data,
                    sa_target, sa_backup, sa_temp, sa_prev, now, validators,
                    bans, pending_requests, l1_commitments, trigger_pc,
                    trigger_request, trigger_todo, zh_current_height,
                    last_commitment_height, l3_blocks, l2_blocks,
                    submitted_proofs, speed_winners, difficulty,
                    block_times, breaker>>
    /\ existed' = Observed
    /\ round' = "none"

\* a thread calls flush()
flush_call(t) ==
    /\ batch.at[t] = "idle"
    /\ batch' = [batch EXCEPT !.at[t] = "flush"]
    /\ UNCHANGED <<chain, wallets, usernames, counters, spent_key_images,
                    mempool, stash_pool, active_sessions,
                    pending_timelocked, last_prune_block, zh_height, lock,
                    pc, phases, new_block, current_height, io_error, disk,
                    sent, peer, nacl_available, next_secret, via, sync_pc,
                    requests, withdrawals, veil_accepted, ephemeral_msgs,
                    reply, save_pc, written, io_log, sa_pc, sa_data,
                    sa_target, sa_backup, sa_temp, sa_prev, now, validators,
                    bans, pending_requests, l1_commitments, trigger_pc,
                    trigger_request, trigger_todo, zh_current_height,
                    last_commitment_height, l3_blocks, l2_blocks,
                    submitted_proofs, speed_winners, difficulty,
                    block_times, breaker>>
    /\ existed' = Observed
    /\ round' = "none"

\* flush: `with self.lock` and its body; the lock is free again at the end of
\* the `with`, and the caller gets the batch
flush(t) ==
    /\ batch.at[t] \in {"flush", "add_flush"}
    /\ batch.lock = "free"
    /\ IF batch.pending_transactions = <<>>
       THEN batch' = [batch EXCEPT !.at[t] = "idle", !.returned[t] = ReturnNone]
       ELSE batch' = [batch EXCEPT !.pending_transactions = <<>>,
                                   !.at[t] = "idle",
                                   !.returned[t] = Return(batch.pending_transactions)]
    /\ UNCHANGED <<chain, wallets, usernames, counters, spent_key_images,
                    mempool, stash_pool, active_sessions,
                    pending_timelocked, last_prune_block, zh_height, lock,
                    pc, phases, new_block, current_height, io_error, disk,
                    sent, peer, nacl_available, next_secret, via, sync_pc,
                    requests, withdrawals, veil_accepted, ephemeral_msgs,
                    reply, save_pc, written, io_log, sa_pc, sa_data,
                    sa_target, sa_backup, sa_temp, sa_prev, now, validators,
                    bans, pending_requests, l1_commitments, trigger_pc,
                    trigger_request, trigger_todo, zh_current_height,
                    last_commitment_height, l3_blocks, l2_blocks,
                    submitted_proofs, speed_winners, difficulty,
                    block_times, breaker>>
    /\ existed' = Observed
    /\ round' = "none"

(***************************************************************************)
(* CircuitBreaker (PATCH_error_handling.py), used by one caller.  The      *)
(* clock may advance while the wrapped function runs.                      *)
(***************************************************************************)
\* the breaker tries the function whatever the time of the last failure
AlwaysTry(b, t) == TRUE

\* CircuitBreaker.call: datetime.now().timestamp() - self.last_failure_time >
\* self.timeout
MayTry(b, t) == t - b.last_failure_time > timeout

\* CircuitBreaker.call up to the call of func: an OPEN breaker either becomes
\* HALF_OPEN or raises "Circuit breaker is OPEN, skipping call"
call_begin ==
    /\ breaker.at = "idle"
    /\ IF breaker.state = "OPEN"
       THEN IF MayTry(breaker, now)
            THEN breaker' = [breaker EXCEPT !.state = "HALF_OPEN", !.at = "func"]
            ELSE breaker' = [breaker EXCEPT !.outcome = "rejected"]
       ELSE breaker' = [breaker EXCEPT !.at = "func"]
    /\ UNCHANGED <<chain, wallets, usernames, counters, spent_key_images,
                    mempool, stash_pool, active_sessions,
                    pending_timelocked, last_prune_block, zh_height, lock,
                    pc, phases, new_block, current_height, io_error, disk,
                    sent, peer, nacl_available, next_secret, via, sync_pc,
                    requests, withdrawals, veil_accepted, ephemeral_msgs,
                    reply, save_pc, written, io_log, sa_pc, sa_data,
                    sa_target, sa_backup, sa_temp, sa_prev, now, validators,
                    bans, pending_requests, l1_commitments, trigger_pc,
                    trigger_request, trigger_todo, zh_current_height,
                    last_commitment_height, l3_blocks, l2_blocks,
                    submitted_proofs, speed_winners, difficulty,
                    block_times, batch>>
    /\ existed' = Observed
    /\ round' = "none"

\* CircuitBreaker.call: func returns
call_returns ==
    /\ breaker.at = "func"
    /\ IF breaker.state = "HALF_OPEN"
       THEN breaker' = [breaker EXCEPT !.state = "CLOSED",
                                       !.failure_count = 0,
                                       !.at = "idle",
                                       !.outcome = "returned",
                                       !.recovered = TRUE,
                                       !.failures_since = 0]
       ELSE breaker' = [breaker EXCEPT !.at = "idle", !.outcome = "returned"]
    /\ UNCHANGED <<chain, wallets, usernames, counters, spent_key_images,
                    mempool, stash_pool, active_sessions,
                    pending_timelocked, last_prune_block, zh_height, lock,
                    pc, phases, new_block, current_height, io_error, disk,
                    sent, peer, nacl_available, next_secret, via, sync_pc,
                    requests, withdrawals, veil_accepted, ephemeral_msgs,
                    reply, save_pc, written, io_log, sa_pc, sa_data,
                    sa_target, sa_backup, sa_temp, sa_prev, now, validators,
                    bans, pending_requests, l1_commitments, trigger_pc,
                    trigger_request, trigger_todo, zh_current_height,
                    last_commitment_height, l3_blocks, l2_blocks,
                    submitted_proofs, speed_winners, difficulty,
                    block_times, batch>>
    /\ existed' = Observed
    /\ round' = "none"

\* CircuitBreaker.call: func raises
call_raises ==
    /\ breaker.at = "func"
    /\ LET count == breaker.failure_count + 1
       IN  breaker' = [breaker EXCEPT
               !.failure_count = count,
               !.last_failure_time = now,
               !.state = IF count >= failure_threshold THEN "OPEN" ELSE @,
               !.at = "idle",
               !.outcome = "raised",
               !.failures_since = @ + 1]
    /\ UNCHANGED <<chain, wallets, usernames, counters, spent_key_images,
                    mempool, stash_pool, active_sessions,
                    pending_timelocked, last_prune_block, zh_height, lock,
                    pc, phases, new_block, current_height, io_error, disk,
                    sent, peer, nacl_available, next_secret, via, sync_pc,
                    requests, withdrawals, veil_accepted, ephemeral_msgs,
                    reply, save_pc, written, io_log, sa_pc, sa_data,
                    sa_target, sa_backup, sa_temp, sa_prev, now, validators,
                    bans, pending_requests, l1_commitments, trigger_pc,
                    trigger_request, trigger_todo, zh_current_height,
                    last_commitment_height, l3_blocks, l2_blocks,
                    submitted_proofs, speed_winners, difficulty,
                    block_times, batch>>
    /\ existed' = Observed
    /\ round' = "none"

\* the clock of the circuit breaker advances by a second
breaker_clock ==
    /\ now < MaxBreakerClock
    /\ now' = now + 1
    /\ UNCHANGED <<chain, wallets, usernames, counters, spent_key_images,
                    mempool, stash_pool, active_sessions,
                    pending_timelocked, last_prune_block, zh_height, lock,
                    pc, phases, new_block, current_height, io_error, disk,
                    sent, peer, nacl_available, next_secret, via, sync_pc,
                    requests, withdrawals, veil_accepted, ephemeral_msgs,
                    reply, save_pc, written, io_log, sa_pc, sa_data,
                    sa_target, sa_backup, sa_temp, sa_prev, validators,
                    bans, pending_requests, l1_commitments, trigger_pc,
                    trigger_request, trigger_todo, zh_current_height,
                    last_commitment_height, l3_blocks, l2_blocks,
                    submitted_proofs, speed_winners, difficulty,
                    block_times, batch, breaker>>
    /\ existed' = Observed
    /\ round' = "none"

(***************************************************************************)
(* Environment and readers.                                                *)
(***************************************************************************)
\* writes to the data directory start to fail (disk full, I/O error)
DiskFails ==
    /\ ~io_error
    /\ io_error' = TRUE
    /\ UNCHANGED <<chain, wallets, usernames, counters, spent_key_images,
                    mempool, stash_pool, active_sessions,
                    pending_timelocked, last_prune_block, zh_height, lock,
                    pc, phases, new_block, current_height, disk, sent, peer,
                    nacl_available, next_secret, via, sync_pc, requests,
                    withdrawals, veil_accepted, ephemeral_msgs, reply,
                    save_pc, written, io_log, sa_pc, sa_data, sa_target,
                    sa_backup, sa_temp, sa_prev, now, validators, bans,
                    pending_requests, l1_commitments, trigger_pc,
                    trigger_request, trigger_todo, zh_current_height,
                    last_commitment_height, l3_blocks, l2_blocks,
                    submitted_proofs, speed_winners, difficulty,
                    block_times, batch, breaker>>
    /\ existed' = Observed
    /\ round' = "none"

DiskRecovers ==
    /\ io_error
    /\ io_error' = FALSE
    /\ UNCHANGED <<chain, wallets, usernames, counters, spent_key_images,
                    mempool, stash_pool, active_sessions,
                    pending_timelocked, last_prune_block, zh_height, lock,
                    pc, phases, new_block, current_height, disk, sent, peer,
                    nacl_available, next_secret, via, sync_pc, requests,
                    withdrawals, veil_accepted, ephemeral_msgs, reply,
                    save_pc, written, io_log, sa_pc, sa_data, sa_target,
                    sa_backup, sa_temp, sa_prev, now, validators, bans,
                    pending_requests, l1_commitments, trigger_pc,
                    trigger_request, trigger_todo, zh_current_height,
                    last_commitment_height, l3_blocks, l2_blocks,
                    submitted_proofs, speed_winners, difficulty,
                    block_times, batch, breaker>>
    /\ existed' = Observed
    /\ round' = "none"

\* /api/balance: a reader of the state, under S.lock
balance(a) ==
    /\ lock = "free"
    /\ a \in DOMAIN wallets
    /\ reply' = [handler |-> "balance", balance |-> wallets[a].balance,
                 phases |-> phases]
    /\ UNCHANGED <<chain, wallets, usernames, counters, spent_key_images,
                    mempool, stash_pool, active_sessions,
                    pending_timelocked, last_prune_block, zh_height, lock,
                    pc, phases, new_block, current_height, io_error, disk,
                    sent, peer, nacl_available, next_secret, via, sync_pc,
                    requests, withdrawals, veil_accepted, ephemeral_msgs,
                    save_pc, written, io_log, sa_pc, sa_data, sa_target,
                    sa_backup, sa_temp, sa_prev, now, validators, bans,
                    pending_requests, l1_commitments, trigger_pc,
                    trigger_request, trigger_todo, zh_current_height,
                    last_commitment_height, l3_blocks, l2_blocks,
                    submitted_proofs, speed_winners, difficulty,
                    block_times, batch, breaker>>
    /\ existed' = Observed
    /\ round' = "none"


\* 'anonymous_' + sha256(address)[:16]
AnonymousAddr(a) == <<"anonymous", a>>

\* block(): the 'from' and 'to' of a transaction are replaced, every other
\* key of the dict is served as it is stored
Anonymized(tx) ==
    [f \in DOMAIN tx |-> IF f \in {"from", "to"} THEN AnonymousAddr(tx[f]) ELSE tx[f]]

\* /api/block/<height>: the transactions of the served block
block(height) ==
    [k \in 1 .. Len(Txs(chain[height + 1])) |-> Anonymized(Txs(chain[height + 1])[k])]

\* texts of the messages
Texts == {"hello"}

\* /api/message.send with ephemeral = True: a text that was sent to the same
\* recipient less than 5 seconds ago (recent) is answered without being
\* stored again; else the message joins S.ephemeral_msgs and the fee is
\* burned
send_message(from_addr, to, text, recent) ==
    /\ lock = "free"
    /\ Len(ephemeral_msgs) < MaxEphemeral
    /\ from_addr \in DOMAIN wallets
    /\ to \in DOMAIN wallets                 \* resolve_recipient
    /\ LET msg == [from_address |-> from_addr, to |-> to, text |-> text]
       IN IF \/ Balance(from_addr) < MIN_MSG_FEE
             \/ recent /\ msg \in Range(Last(ephemeral_msgs, 50))
          THEN UNCHANGED <<ephemeral_msgs, wallets, counters, io_log>>
          ELSE /\ ephemeral_msgs' = Append(ephemeral_msgs, msg)
               /\ wallets' = Credit(wallets, from_addr, 0 - MIN_MSG_FEE)
               /\ counters' = [counters EXCEPT !.burned_fees = @ + MIN_MSG_FEE]
               /\ io_log' = io_log \cup {Io("disk", TRUE)}           \* save_msgs
    /\ UNCHANGED <<chain, usernames, spent_key_images, mempool, stash_pool,
                    active_sessions, pending_timelocked, last_prune_block,
                    zh_height, lock, pc, phases, new_block, current_height,
                    io_error, disk, sent, peer, nacl_available, next_secret,
                    via, sync_pc, requests, withdrawals, veil_accepted,
                    reply, save_pc, written, sa_pc, sa_data, sa_target,
                    sa_backup, sa_temp, sa_prev, now, validators, bans,
                    pending_requests, l1_commitments, trigger_pc,
                    trigger_request, trigger_todo, zh_current_height,
                    last_commitment_height, l3_blocks, l2_blocks,
                    submitted_proofs, speed_winners, difficulty,
                    block_times, batch, breaker>>
    /\ existed' = Observed
    /\ round' = "none"

(***************************************************************************)
(* lac_zero_history.py: WitnessCollectionSystem and the commitment trigger *)
(* of ZeroHistoryManager.                                                  *)
(***************************************************************************)
\* addresses that may sign a witness request
Witnesses == {"v1", "v2"}

\* ValidatorInfo.banned_until of a validator that was never banned (0 in the
\* code, whose clock is far from 0)
NeverBanned == 0 - 1

\* ValidatorInfo.is_active
is_active(validator) == now > validator.banned_until

\* ValidatorManager.get_active_validators: their addresses
get_active_validators == {a \in DOMAIN validators : is_active(validators[a])}

\* ValidatorManager.register_validator: a level or a stake it refuses leaves
\* the validators as they are, and an accepted one stores a new ValidatorInfo
\* under the address
register_validator(address, level, stake) ==
    /\ validators' =
           IF level < MIN_VALIDATOR_LEVEL \/ level > PRIORITY_VALIDATOR_LEVEL
           THEN validators
           ELSE IF stake < (IF level = 5 THEN VALIDATOR_STAKE_L5 ELSE VALIDATOR_STAKE_L6)
           THEN validators
           ELSE With(validators, address,
                     [level |-> level, stake |-> stake, banned_until |-> NeverBanned])
    /\ UNCHANGED <<chain, wallets, usernames, counters, spent_key_images,
                    mempool, stash_pool, active_sessions,
                    pending_timelocked, last_prune_block, zh_height, lock,
                    pc, phases, new_block, current_height, io_error, disk,
                    sent, peer, nacl_available, next_secret, via, sync_pc,
                    requests, withdrawals, veil_accepted, ephemeral_msgs,
                    reply, save_pc, written, io_log, sa_pc, sa_data,
                    sa_target, sa_backup, sa_temp, sa_prev, now, bans,
                    pending_requests, l1_commitments, trigger_pc,
                    trigger_request, trigger_todo, zh_current_height,
                    last_commitment_height, l3_blocks, l2_blocks,
                    submitted_proofs, speed_winners, difficulty,
                    block_times, batch, breaker>>
    /\ existed' = Observed
    /\ round' = "none"

\* ValidatorManager.punish_fraud (FRAUD_PUNISHMENT_SLASH is 0), called between
\* two runs of the commitment trigger
punish_fraud(validator_address) ==
    /\ trigger_pc = "idle"
    /\ validator_address \in DOMAIN validators
    /\ validators' = [validators EXCEPT
                         ![validator_address].banned_until = now + FRAUD_PUNISHMENT_BAN]
    /\ bans' = With(bans, validator_address, now + FRAUD_PUNISHMENT_BAN)
    /\ UNCHANGED <<chain, wallets, usernames, counters, spent_key_images,
                    mempool, stash_pool, active_sessions,
                    pending_timelocked, last_prune_block, zh_height, lock,
                    pc, phases, new_block, current_height, io_error, disk,
                    sent, peer, nacl_available, next_secret, via, sync_pc,
                    requests, withdrawals, veil_accepted, ephemeral_msgs,
                    reply, save_pc, written, io_log, sa_pc, sa_data,
                    sa_target, sa_backup, sa_temp, sa_prev, now,
                    pending_requests, l1_commitments, trigger_pc,
                    trigger_request, trigger_todo, zh_current_height,
                    last_commitment_height, l3_blocks, l2_blocks,
                    submitted_proofs, speed_winners, difficulty,
                    block_times, batch, breaker>>
    /\ existed' = Observed
    /\ round' = "none"

\* the node restarts: save_to_disk keeps the commitments, not the validators
\* and not the pending requests, and _register_zero_history_validators
\* registers the wallets of level 5 and above again
restart_validators ==
    /\ trigger_pc = "idle"
    /\ validators' = [a \in DOMAIN validators |->
                         [validators[a] EXCEPT !.banned_until = NeverBanned]]
    /\ pending_requests' = <<>>
    /\ UNCHANGED <<chain, wallets, usernames, counters, spent_key_images,
                    mempool, stash_pool, active_sessions,
                    pending_timelocked, last_prune_block, zh_height, lock,
                    pc, phases, new_block, current_height, io_error, disk,
                    sent, peer, nacl_available, next_secret, via, sync_pc,
                    requests, withdrawals, veil_accepted, ephemeral_msgs,
                    reply, save_pc, written, io_log, sa_pc, sa_data,
                    sa_target, sa_backup, sa_temp, sa_prev, now, bans,
                    l1_commitments, trigger_pc, trigger_request,
                    trigger_todo, zh_current_height, last_commitment_height,
                    l3_blocks, l2_blocks, submitted_proofs, speed_winners,
                    difficulty, block_times, batch, breaker>>
    /\ existed' = Observed
    /\ round' = "none"

\* the clock advances by a second
Tick ==
    /\ now < MaxTime
    /\ now' = now + 1
    /\ UNCHANGED <<chain, wallets, usernames, counters, spent_key_images,
                    mempool, stash_pool, active_sessions,
                    pending_timelocked, last_prune_block, zh_height, lock,
                    pc, phases, new_block, current_height, io_error, disk,
                    sent, peer, nacl_available, next_secret, via, sync_pc,
                    requests, withdrawals, veil_accepted, ephemeral_msgs,
                    reply, save_pc, written, io_log, sa_pc, sa_data,
                    sa_target, sa_backup, sa_temp, sa_prev, validators,
                    bans, pending_requests, l1_commitments, trigger_pc,
                    trigger_request, trigger_todo, zh_current_height,
                    last_commitment_height, l3_blocks, l2_blocks,
                    submitted_proofs, speed_winners, difficulty,
                    block_times, batch, breaker>>
    /\ existed' = Observed
    /\ round' = "none"

\* a count that every request reaches
HasWitnessesAlways(request, min_count) == TRUE

\* WitnessRequest.has_enough_witnesses
has_enough_witnesses(request, min_count) ==
    Len(request.signatures_collected) >= min_count

\* WitnessRequest.is_expired
is_expired(request) == now > request.deadline

\* sha256(commitment_hash + address): what a witness signs with
Signature(commitment_hash, address) == <<commitment_hash, address>>

\* WitnessCollectionSystem.create_witness_request: the request it stores
WitnessRequest(request_id, validator_address) ==
    [request_id |-> request_id, commitment_hash |-> request_id,
     validator_address |-> validator_address, created_at |-> now,
     deadline |-> now + MAX_WITNESS_TIMEOUT,
     signatures_collected |-> <<>>, addresses_collected |-> <<>>,
     last_collected_at |-> now]

\* WitnessCollectionSystem.add_witness_signature: pending_requests after the
\* call (last_collected_at records when the latest signature came in)
AddWitnessSignature(pending, request_id, witness_address, signature) ==
    IF request_id \notin DOMAIN pending THEN pending
    ELSE IF is_expired(pending[request_id]) THEN pending
    ELSE [pending EXCEPT
            ![request_id].signatures_collected = Append(@, signature),
            ![request_id].addresses_collected = Append(@, witness_address),
            ![request_id].last_collected_at = now]

\* WitnessCollectionSystem.add_witness_signature called for a pending request
add_witness_signature(request_id, witness_address) ==
    /\ request_id \in DOMAIN pending_requests
    /\ Len(pending_requests[request_id].signatures_collected) < MaxSignatures
    /\ pending_requests' =
           AddWitnessSignature(pending_requests, request_id, witness_address,
               Signature(pending_requests[request_id].commitment_hash, witness_address))
    /\ UNCHANGED <<chain, wallets, usernames, counters, spent_key_images,
                    mempool, stash_pool, active_sessions,
                    pending_timelocked, last_prune_block, zh_height, lock,
                    pc, phases, new_block, current_height, io_error, disk,
                    sent, peer, nacl_available, next_secret, via, sync_pc,
                    requests, withdrawals, veil_accepted, ephemeral_msgs,
                    reply, save_pc, written, io_log, sa_pc, sa_data,
                    sa_target, sa_backup, sa_temp, sa_prev, now, validators,
                    bans, l1_commitments, trigger_pc, trigger_request,
                    trigger_todo, zh_current_height, last_commitment_height,
                    l3_blocks, l2_blocks, submitted_proofs, speed_winners,
                    difficulty, block_times, batch, breaker>>
    /\ existed' = Observed
    /\ round' = "none"

\* WitnessCollectionSystem.check_request_ready: its first result
check_request_ready(request_id) ==
    /\ request_id \in DOMAIN pending_requests
    /\ has_enough_witnesses(pending_requests[request_id], MIN_WITNESSES)

\* ZeroHistoryManager._create_commitment_trigger up to the witness request:
\* a validator is selected and create_witness_request stores the request
create_commitment_trigger ==
    /\ trigger_pc = "idle"
    /\ LET request_id == Cardinality(DOMAIN pending_requests) + Len(l1_commitments) + 1
       IN /\ request_id <= MaxWitnessRequests
          /\ IF get_active_validators = {}
             THEN UNCHANGED <<pending_requests, trigger_pc, trigger_request,
                              trigger_todo>>                       \* return
             ELSE \E validator \in get_active_validators :
                  /\ pending_requests' =
                         With(pending_requests, request_id,
                              WitnessRequest(request_id, validator))
                  /\ trigger_request' = request_id
                  /\ trigger_todo' = get_active_validators
                  /\ trigger_pc' = "collect"
    /\ UNCHANGED <<chain, wallets, usernames, counters, spent_key_images,
                    mempool, stash_pool, active_sessions,
                    pending_timelocked, last_prune_block, zh_height, lock,
                    pc, phases, new_block, current_height, io_error, disk,
                    sent, peer, nacl_available, next_secret, via, sync_pc,
                    requests, withdrawals, veil_accepted, ephemeral_msgs,
                    reply, save_pc, written, io_log, sa_pc, sa_data,
                    sa_target, sa_backup, sa_temp, sa_prev, now, validators,
                    bans, l1_commitments, zh_current_height,
                    last_commitment_height, l3_blocks, l2_blocks,
                    submitted_proofs, speed_winners, difficulty,
                    block_times, batch, breaker>>
    /\ existed' = Observed
    /\ round' = "none"

\* ZeroHistoryManager._simulate_witness_collection: one iteration of its loop
\* over the active validators
simulate_witness_collection ==
    /\ trigger_pc = "collect"
    /\ \E validator \in trigger_todo :
        /\ pending_requests' =
               AddWitnessSignature(pending_requests, trigger_request, validator,
                   Signature(pending_requests[trigger_request].commitment_hash,
                             validator))
        /\ trigger_todo' = trigger_todo \ {validator}
    /\ UNCHANGED <<chain, wallets, usernames, counters, spent_key_images,
                    mempool, stash_pool, active_sessions,
                    pending_timelocked, last_prune_block, zh_height, lock,
                    pc, phases, new_block, current_height, io_error, disk,
                    sent, peer, nacl_available, next_secret, via, sync_pc,
                    requests, withdrawals, veil_accepted, ephemeral_msgs,
                    reply, save_pc, written, io_log, sa_pc, sa_data,
                    sa_target, sa_backup, sa_temp, sa_prev, now, validators,
                    bans, l1_commitments, trigger_pc, trigger_request,
                    zh_current_height, last_commitment_height, l3_blocks,
                    l2_blocks, submitted_proofs, speed_winners, difficulty,
                    block_times, batch, breaker>>
    /\ existed' = Observed
    /\ round' = "none"

\* previous_commitment of the first commitment: ""
NoCommitment == <<>>

\* StateCommitment.hash: sha256 of block_height, commitment_hash, merkle_root,
\* utxo_root and validator_address
CommitmentHash(c) == <<c.block_height, c.commitment_hash, c.validator_address>>

\* L1Commitment and its StateCommitment built by _finalize_commitment
\* (deadline and last_collected_at are carried along from the request)
Commitment(request, height_start, height_end, l1) ==
    [height_start |-> height_start,
     height_end |-> height_end,
     block_height |-> height_end,
     commitment_hash |-> request.commitment_hash,
     validator_address |-> request.validator_address,
     timestamp |-> now,
     witness_signatures |-> request.signatures_collected,
     witness_addresses |-> request.addresses_collected,
     previous_commitment |-> IF l1 # <<>> THEN CommitmentHash(l1[Len(l1)])
                             ELSE NoCommitment,
     deadline |-> request.deadline,
     last_collected_at |-> request.last_collected_at]

\* ZeroHistoryManager._create_commitment_trigger after the collection:
\* check_request_ready, finalize_request and _finalize_commitment
finalize_commitment ==
    /\ trigger_pc = "collect"
    /\ trigger_todo = {}
    /\ IF check_request_ready(trigger_request)
       THEN /\ l1_commitments' =
                   Append(l1_commitments,
                          Commitment(pending_requests[trigger_request],
                                     last_commitment_height, zh_current_height,
                                     l1_commitments))
            /\ pending_requests' = Without(pending_requests, trigger_request)
       ELSE UNCHANGED <<l1_commitments, pending_requests>>
    /\ trigger_pc' = "idle"
    /\ UNCHANGED <<chain, wallets, usernames, counters, spent_key_images,
                    mempool, stash_pool, active_sessions,
                    pending_timelocked, last_prune_block, zh_height, lock,
                    pc, phases, new_block, current_height, io_error, disk,
                    sent, peer, nacl_available, next_secret, via, sync_pc,
                    requests, withdrawals, veil_accepted, ephemeral_msgs,
                    reply, save_pc, written, io_log, sa_pc, sa_data,
                    sa_target, sa_backup, sa_temp, sa_prev, now, validators,
                    bans, trigger_request, trigger_todo, zh_current_height,
                    last_commitment_height, l3_blocks, l2_blocks,
                    submitted_proofs, speed_winners, difficulty,
                    block_times, batch, breaker>>
    /\ existed' = Observed
    /\ round' = "none"

\* time passes between two blocks
time_passes ==
    /\ now < MaxClock
    /\ now' = now + 1
    /\ UNCHANGED <<chain, wallets, usernames, counters, spent_key_images,
                    mempool, stash_pool, active_sessions,
                    pending_timelocked, last_prune_block, zh_height, lock,
                    pc, phases, new_block, current_height, io_error, disk,
                    sent, peer, nacl_available, next_secret, via, sync_pc,
                    requests, withdrawals, veil_accepted, ephemeral_msgs,
                    reply, save_pc, written, io_log, sa_pc, sa_data,
                    sa_target, sa_backup, sa_temp, sa_prev, validators,
                    bans, pending_requests, l1_commitments, trigger_pc,
                    trigger_request, trigger_todo, zh_current_height,
                    last_commitment_height, l3_blocks, l2_blocks,
                    submitted_proofs, speed_winners, difficulty,
                    block_times, batch, breaker>>
    /\ existed' = Observed
    /\ round' = "none"

\* CheckpointSystem.checkpoints: nothing calls mark_checkpoint
checkpoints == {}

\* CheckpointSystem.should_keep_commitment (L1Commitment.checkpoint is never
\* set)
should_keep_commitment(commitment, current_time) ==
    LET age == current_time - commitment.timestamp
    IN IF commitment.block_height \in checkpoints THEN TRUE
       ELSE IF age < CHECKPOINT_RETENTION_YEARS THEN TRUE
       ELSE IF age >= ONE_YEAR /\ age < FIVE_YEARS
       THEN commitment.block_height % (COMMITMENT_INTERVAL * CHECKPOINT_INTERVAL_1Y) = 0
       ELSE IF age >= FIVE_YEARS
       THEN commitment.block_height % (COMMITMENT_INTERVAL * CHECKPOINT_INTERVAL_5Y) = 0
       ELSE TRUE

\* CheckpointSystem.cleanup_old_commitments
cleanup_old_commitments(commitments, current_time) ==
    SelectSeq(commitments, LAMBDA c : should_keep_commitment(c, current_time))

\* ZeroHistoryManager._find_commitment_for_height found a commitment
find_commitment_for_height(l1, height) ==
    \E i \in 1 .. Len(l1) : l1[i].height_start <= height /\ height <= l1[i].height_end

\* ZeroHistoryManager._prune_l2_to_l1: the block is deleted when a commitment
\* covers it, and deleted with a warning when none does
prune_l2_to_l1(l2, l2_block, l1) ==
    IF find_commitment_for_height(l1, l2_block.height)
    THEN l2 \ {l2_block}
    ELSE l2 \ {l2_block}

RECURSIVE PruneL2(_, _, _)
\* `for height in l2_blocks_to_prune: self._prune_l2_to_l1(height)`
PruneL2(l2, to_prune, l1) ==
    IF to_prune = {} THEN l2
    ELSE LET l2_block == CHOOSE b \in to_prune : TRUE
         IN PruneL2(prune_l2_to_l1(l2, l2_block, l1), to_prune \ {l2_block}, l1)

RECURSIVE CollectAll(_, _, _)
\* _simulate_witness_collection: every active validator signs the request
CollectAll(pending, request_id, todo) ==
    IF todo = {} THEN pending
    ELSE LET validator == CHOOSE v \in todo : TRUE
         IN CollectAll(AddWitnessSignature(pending, request_id, validator,
                           Signature(pending[request_id].commitment_hash, validator)),
                       request_id, todo \ {validator})

\* ZeroHistoryManager.add_block: the block enters L3, _check_pruning moves
\* old blocks L3 -> L2 -> L1 and cleans the commitments up, and when
\* COMMITMENT_INTERVAL blocks have passed _create_commitment_trigger runs
add_block ==
    /\ trigger_pc = "idle"
    /\ zh_current_height < MaxZhBlocks
    /\ LET height == zh_current_height + 1
           l3 == l3_blocks \cup {[height |-> height, timestamp |-> now]}
           to_l2 == {b \in l3 : b.timestamp < now - L3_LIFETIME}
           l2 == l2_blocks \cup to_l2
           to_l1 == {b \in l2 : b.timestamp < now - L2_LIFETIME}
           kept == cleanup_old_commitments(l1_commitments, now)
           request_id == MaxWitnessRequests + height
       IN /\ zh_current_height' = height
          /\ l3_blocks' = l3 \ to_l2
          /\ l2_blocks' = PruneL2(l2, to_l1, l1_commitments)
          /\ IF height - last_commitment_height >= COMMITMENT_INTERVAL
             THEN /\ last_commitment_height' = height
                  /\ IF get_active_validators = {}
                     THEN /\ l1_commitments' = kept
                          /\ UNCHANGED pending_requests
                     ELSE \E validator \in get_active_validators :
                          LET collected ==
                                  CollectAll(With(pending_requests, request_id,
                                                  WitnessRequest(request_id, validator)),
                                             request_id, get_active_validators)
                          IN IF has_enough_witnesses(collected[request_id], MIN_WITNESSES)
                             THEN /\ l1_commitments' =
                                         Append(kept, Commitment(collected[request_id],
                                                    last_commitment_height, height, kept))
                                  /\ UNCHANGED pending_requests
                             ELSE /\ l1_commitments' = kept
                                  /\ pending_requests' = collected
             ELSE /\ l1_commitments' = kept
                  /\ UNCHANGED <<last_commitment_height, pending_requests>>
    /\ UNCHANGED <<chain, wallets, usernames, counters, spent_key_images,
                    mempool, stash_pool, active_sessions,
                    pending_timelocked, last_prune_block, zh_height, lock,
                    pc, phases, new_block, current_height, io_error, disk,
                    sent, peer, nacl_available, next_secret, via, sync_pc,
                    requests, withdrawals, veil_accepted, ephemeral_msgs,
                    reply, save_pc, written, io_log, sa_pc, sa_data,
                    sa_target, sa_backup, sa_temp, sa_prev, now, validators,
                    bans, trigger_pc, trigger_request, trigger_todo,
                    submitted_proofs, speed_winners, difficulty,
                    block_times, batch, breaker>>
    /\ existed' = Observed
    /\ round' = "none"

(***************************************************************************)
(* lac_poet_mining.py: LACPoETMiningV3 and LACMiningCoordinator.           *)
(***************************************************************************)
\* the miners that submit proofs
Miners == {"m1", "m2", "m3"}
\* the times a proof may have taken, in seconds
Elapsed == {1, 2}

\* LACMiningCoordinator.submit_proof of a registered miner whose wait is over:
\* the proof joins submitted_proofs
submit_proof(address, elapsed) ==
    /\ Len(submitted_proofs) < MaxProofs
    /\ submitted_proofs' =
           Append(submitted_proofs, [address |-> address, elapsed |-> elapsed])
    /\ UNCHANGED <<chain, wallets, usernames, counters, spent_key_images,
                    mempool, stash_pool, active_sessions,
                    pending_timelocked, last_prune_block, zh_height, lock,
                    pc, phases, new_block, current_height, io_error, disk,
                    sent, peer, nacl_available, next_secret, via, sync_pc,
                    requests, withdrawals, veil_accepted, ephemeral_msgs,
                    reply, save_pc, written, io_log, sa_pc, sa_data,
                    sa_target, sa_backup, sa_temp, sa_prev, now, validators,
                    bans, pending_requests, l1_commitments, trigger_pc,
                    trigger_request, trigger_todo, zh_current_height,
                    last_commitment_height, l3_blocks, l2_blocks,
                    speed_winners, difficulty, block_times, batch, breaker>>
    /\ existed' = Observed
    /\ round' = "none"

\* A list of proofs taken from submitted_proofs is held as the list of their
\* positions in submitted_proofs: the dicts are the same objects.

\* list.insert of proof k behind the entries whose key is not greater
InsertByElapsed(proofs, sorted, k) ==
    LET n == Cardinality({i \in 1 .. Len(sorted) :
                             proofs[sorted[i]].elapsed <= proofs[k].elapsed})
    IN SubSeq(sorted, 1, n) \o <<k>> \o SubSeq(sorted, n + 1, Len(sorted))

RECURSIVE SortedUpTo(_, _)
\* the first n proofs, sorted
SortedUpTo(proofs, n) ==
    IF n = 0 THEN <<>> ELSE InsertByElapsed(proofs, SortedUpTo(proofs, n - 1), n)

\* the proofs in the order they were submitted in
SubmissionOrder(proofs) == [i \in 1 .. Len(proofs) |-> i]

\* sorted(proofs, key=lambda p: p['elapsed']): the sort is stable
sorted_proofs(proofs) == SortedUpTo(proofs, Len(proofs))

\* address_wins[address]
address_wins(proofs, winners, address) ==
    Cardinality({i \in 1 .. Len(winners) : proofs[winners[i]].address = address})

RECURSIVE SelectWinners(_, _, _, _)
\* the loop of select_speed_winners over the sorted proofs
SelectWinners(proofs, sorted, winners, max_per_address) ==
    IF sorted = <<>> THEN winners
    ELSE IF Len(winners) >= SPEED_WINNERS THEN winners                \* break
    ELSE SelectWinners(proofs, Tail(sorted),
                       IF address_wins(proofs, winners, proofs[Head(sorted)].address)
                              < max_per_address
                       THEN Append(winners, Head(sorted)) ELSE winners,
                       max_per_address)

\* LACPoETMiningV3.select_speed_winners
select_speed_winners(proofs, max_per_address) ==
    SelectWinners(proofs, sorted_proofs(proofs), <<>>, max_per_address)

\* max(lo, min(hi, x))
Clamp(lo, hi, x) == IF x < lo THEN lo ELSE IF x > hi THEN hi ELSE x

\* sum(recent_block_times)
RECURSIVE SumSeq(_)
SumSeq(seq) == IF seq = <<>> THEN 0 ELSE Head(seq) + SumSeq(Tail(seq))

\* LACPoETMiningV3.adjust_difficulty: ratio is held in hundredths and the
\* difficulty in thousandths, rounded down
adjust_difficulty(current, recent_block_times) ==
    IF recent_block_times = <<>> THEN current
    ELSE LET ratio == Clamp(75, 125,
                            (SumSeq(recent_block_times) * 100)
                                \div (Len(recent_block_times) * TARGET_BLOCK_TIME))
             new_difficulty == (current * 100) \div ratio
         IN Clamp(100, 100000, new_difficulty)

\* LACMiningCoordinator.mine_block: the speed winners are selected, the block
\* time is recorded, the difficulty is adjusted every
\* DIFFICULTY_ADJUSTMENT_INTERVAL blocks and the proofs are reset (the win
\* history and total_supply_mined, read by the wait times and lottery
\* weights only, are left out)
mine_block(block_time) ==
    /\ current_height < MaxPoetBlocks
    /\ speed_winners' = select_speed_winners(submitted_proofs, MAX_WINS_PER_ADDRESS)
    /\ block_times' = Append(block_times, block_time)
    /\ difficulty' =
           IF current_height % DIFFICULTY_ADJUSTMENT_INTERVAL = 0
           THEN adjust_difficulty(difficulty,
                                  Last(block_times', DIFFICULTY_ADJUSTMENT_INTERVAL))
           ELSE difficulty
    /\ current_height' = current_height + 1
    /\ submitted_proofs' = <<>>
    /\ UNCHANGED <<chain, wallets, usernames, counters, spent_key_images,
                    mempool, stash_pool, active_sessions,
                    pending_timelocked, last_prune_block, zh_height, lock,
                    pc, phases, new_block, io_error, disk, sent, peer,
                    nacl_available, next_secret, via, sync_pc, requests,
                    withdrawals, veil_accepted, ephemeral_msgs, reply,
                    save_pc, written, io_log, sa_pc, sa_data, sa_target,
                    sa_backup, sa_temp, sa_prev, now, validators, bans,
                    pending_requests, l1_commitments, trigger_pc,
                    trigger_request, trigger_todo, zh_current_height,
                    last_commitment_height, l3_blocks, l2_blocks, batch,
                    breaker>>
    /\ existed' = Observed
    /\ round' = "none"

\* wait times register_miner draws, in seconds: WAIT_TIMES runs from (3, 6) at
\* level 7 to (12, 20) at level 0, less at most 5% for the balance
WaitTimes == {3, 20}
\* time.time() - miner['registered_at'] when auto_mining_loop calls
\* submit_proof in the critical section that has registered the miner, in
\* seconds: none, or as many as a stalled process takes
ElapsedInLoop == {0, 3}

\* submit_proof, "Must wait minimum time": the proof is appended unless
\* elapsed < miner['wait_time']
ProofAccepted(elapsed, wait_time) == ~(elapsed < wait_time)

\* auto_mining_loop, from "Simulate proofs" to mine_block: submit_proof for
\* every eligible miner, then LACMiningCoordinator.mine_block, whose block
\* dict the reply holds (select_lottery_winners returns the exact_count it is
\* asked for)
mining_round(eligible_miners, block_time) ==
    /\ current_height < MaxPoetBlocks
    /\ \E wait_time \in [eligible_miners -> WaitTimes] :
       \E elapsed \in [eligible_miners -> ElapsedInLoop] :
          LET Accepted(a) == ProofAccepted(elapsed[a], wait_time[a])
              submitters == SelectSeq(list(eligible_miners), Accepted)
              proofs == submitted_proofs \o
                            [i \in 1 .. Len(submitters) |->
                                [address |-> submitters[i],
                                 elapsed |-> elapsed[submitters[i]]]]
              winners == select_speed_winners(proofs, MAX_WINS_PER_ADDRESS)
          IN /\ speed_winners' = winners
             /\ reply' = [handler |-> "mine_block",
                          active_miners |-> Cardinality(eligible_miners),
                          proofs_submitted |-> Len(proofs),
                          speed_winners |-> Len(winners),
                          lottery_winners |-> WINNERS_PER_BLOCK - Len(winners)]
    /\ block_times' = Append(block_times, block_time)
    /\ difficulty' =
           IF current_height % DIFFICULTY_ADJUSTMENT_INTERVAL = 0
           THEN adjust_difficulty(difficulty,
                                  Last(block_times', DIFFICULTY_ADJUSTMENT_INTERVAL))
           ELSE difficulty
    /\ current_height' = current_height + 1
    /\ submitted_proofs' = <<>>
    /\ UNCHANGED <<chain, wallets, usernames, counters, spent_key_images,
                    mempool, stash_pool, active_sessions,
                    pending_timelocked, last_prune_block, zh_height, lock,
                    pc, phases, new_block, io_error, disk, sent, peer,
                    nacl_available, next_secret, via, sync_pc, requests,
                    withdrawals, veil_accepted, ephemeral_msgs, save_pc,
                    written, io_log, sa_pc, sa_data, sa_target, sa_backup,
                    sa_temp, sa_prev, now, validators, bans,
                    pending_requests, l1_commitments, trigger_pc,
                    trigger_request, trigger_todo, zh_current_height,
                    last_commitment_height, l3_blocks, l2_blocks, batch,
                    breaker>>
    /\ existed' = Observed
    /\ round' = "none"

(***************************************************************************)
(* Specifications.                                                         *)
(***************************************************************************)
\* indexes a peer may put on a block it sends
PeerIndexes == (Len(chain) - 1) .. (Len(chain) + 1)

Sessions ==
    \/ \E a \in Addrs : login(a)
    \/ \E a \in Addrs : register(a)

Mining ==
    \/ mine_rewards
    \/ mine_assemble
    \/ mine_timelock
    \/ mine_prune
    \/ mine_zero_history
    \/ mine_save
    \/ broadcast_block_to_peers

Peers ==
    \/ \E i \in PeerIndexes : \E b \in PeerBlocks(i) : block_submit(b)
    \/ sync_begin
    \/ \E b \in PeerBlocks(Len(chain)) : sync_block(b)
    \/ sync_end

Transfers ==
    \/ \E a \in Addrs : faucet(a)
    \/ \E a, b \in Addrs : \E m \in Amounts : transfer_normal(a, b, m)
    \/ \E a \in Addrs : panic(a)

Veil ==
    \E a, b \in Addrs : \E m \in Amounts : veil_transfer(a, b, m)

Stash ==
    \/ \E a \in Addrs : \E c \in DOMAIN STASH_NOMINALS : stash_deposit(a, c)
    \/ \E t \in 1 .. MaxRequests : \E a \in Withdrawers :
       \E m \in KeyAmounts : \E x \in KeySecrets : stash_withdraw_parse(t, a, m, x)
    \/ \E t \in 1 .. MaxRequests : stash_withdraw(t)

Timelocks ==
    \/ \E a, b \in Addrs : \E m \in TimelockAmounts : \E d \in TimelockDelays :
          create_timelock(a, b, m, d)
    \/ \E tx \in pending_timelocked : \E a \in Addrs : cancel_timelock(tx, a)

Environment ==
    \/ DiskFails
    \/ DiskRecovers
    \/ \E a \in Addrs : balance(a)

\* State.save of the mining loop taken file by file, and the restart
Store ==
    \/ save_begin
    \/ save_file
    \/ save_end
    \/ crash_reload

\* the requests signatures are explored for: a request the trigger has left
\* is not read again
CollectingRequests == IF trigger_pc = "collect" THEN {trigger_request} ELSE {}

\* the witness collection of lac_zero_history.py
Commitments ==
    \/ \E a \in Witnesses : register_validator(a, 5, VALIDATOR_STAKE_L5)
    \/ Tick
    \/ create_commitment_trigger
    \/ simulate_witness_collection
    \/ \E r \in CollectingRequests : \E a \in Witnesses : add_witness_signature(r, a)
    \/ finalize_commitment

\* the storage tiers of lac_zero_history.py
Tiers ==
    \/ \E a \in Witnesses : register_validator(a, 5, VALIDATOR_STAKE_L5)
    \/ time_passes
    \/ add_block

\* the levels and stakes validators register with
Registrations == {<<4, VALIDATOR_STAKE_L6>>, <<5, VALIDATOR_STAKE_L5 - 1>>,
                  <<5, VALIDATOR_STAKE_L5>>, <<6, VALIDATOR_STAKE_L5>>,
                  <<6, VALIDATOR_STAKE_L6>>}

\* ValidatorManager of lac_zero_history.py with the commitment trigger
Validators ==
    \/ \E a \in Witnesses : \E r \in Registrations : register_validator(a, r[1], r[2])
    \/ \E a \in Witnesses : punish_fraud(a)
    \/ restart_validators
    \/ Tick
    \/ create_commitment_trigger
    \/ simulate_witness_collection
    \/ finalize_commitment

\* times a block may take, in seconds
BlockTimes == {5, 8, 10, 12, 20}

\* proofs submitted and blocks mined on time by the coordinator
Poet ==
    \/ \E a \in Miners : \E t \in Elapsed : submit_proof(a, t)
    \/ mine_block(TARGET_BLOCK_TIME)

\* blocks mined by the coordinator at varying block times
Difficulty ==
    \E t \in BlockTimes : mine_block(t)

\* ephemeral messages
Messages ==
    \E a, b \in Addrs : \E t \in Texts : \E recent \in BOOLEAN : send_message(a, b, t, recent)

\* StateManager.save_atomic on one file
Atomic ==
    \/ \E v \in Versions : \E b \in BOOLEAN : save_atomic(v, b)
    \/ \E ok \in BOOLEAN : save_atomic_backup(ok)
    \/ \E ok \in BOOLEAN : save_atomic_mkstemp(ok)
    \/ \E ok \in BOOLEAN : save_atomic_write(ok)
    \/ \E ok \in BOOLEAN : save_atomic_replace(ok)
    \/ \E ok \in BOOLEAN : save_atomic_except(ok)
    \/ save_atomic_killed

\* the rounds of auto_mining_loop on the coordinator
Rounds ==
    \E eligible_miners \in SUBSET Miners \ {{}} : \E t \in {TARGET_BLOCK_TIME, 20} :
        mining_round(eligible_miners, t)

\* threads that use one BatchProcessor
Batch ==
    \/ \E t \in Threads : \E tx \in TxIds : add_transaction_call(t, tx)
    \/ \E t \in Threads : add_transaction(t)
    \/ \E t \in Threads : flush_call(t)
    \/ \E t \in Threads : flush(t)

\* the caller of one CircuitBreaker, and its clock
Breaker ==
    \/ call_begin
    \/ call_returns
    \/ call_raises
    \/ breaker_clock

\* a peer node that follows this one
PeerNode ==
    \/ \E s \in sent : peer_block_submit(s.block)
    \/ peer_sync_block

Names ==
    \/ \E a \in Addrs : \E n \in Nicknames : change_nickname(a, n)

Load ==
    \/ load
    \/ corrupt_main
    \/ corrupt_backup

Next ==
    \/ Sessions
    \/ Mining
    \/ Peers
    \/ Transfers
    \/ Veil
    \/ Stash
    \/ Timelocks
    \/ Environment
    \/ Store
    \/ Atomic
    \/ Commitments
    \/ Tiers
    \/ Validators
    \/ Poet
    \/ Difficulty
    \/ Messages
    \/ Load
    \/ Names
    \/ PeerNode
    \/ Rounds
    \/ Batch
    \/ Breaker

Spec == Init /\ [][Next]_vars

\* the CircuitBreaker alone
NextBreaker == Breaker

SpecBreaker == Init /\ [][NextBreaker]_vars

\* the BatchProcessor alone
NextBatch == Batch

SpecBatch == Init /\ [][NextBatch]_vars

\* timelocked transfers, their cancellation and block production
NextTimelock ==
    \/ \E a \in Addrs : login(a)
    \/ Timelocks
    \/ Mining

SpecTimelock == Init /\ [][NextTimelock]_vars

\* timelocked transfers that unlock one or two blocks ahead
UnlockDelays == {1, 2}

NextUnlock ==
    \/ login("a1")
    \/ \E m \in Amounts : \E d \in UnlockDelays : create_timelock("a1", "a2", m, d)
    \/ \E tx \in pending_timelocked : cancel_timelock(tx, "a1")
    \/ Mining

SpecUnlock == Init /\ [][NextUnlock]_vars

\* the proofs and winners of the rounds of the mining loop
NextProofs == Rounds

SpecProofs == Init /\ [][NextProofs]_vars

\* nicknames across restarts
NextNames ==
    \/ Names
    \/ DiskFails
    \/ DiskRecovers
    \/ crash_reload

SpecNames == Init /\ [][NextNames]_vars

\* saving, damage to the files and loading of one file of the data directory
NextLoad ==
    \/ Atomic
    \/ Load

SpecLoad == Init /\ [][NextLoad]_vars

\* the chain and every path that extends or rewrites it
NextChain ==
    \/ \E a \in Addrs : login(a)
    \/ Mining
    \/ Peers

SpecChain == Init /\ [][NextChain]_vars

\* the STASH pool
NextStash == Stash

SpecStash == Init /\ [][NextStash]_vars

\* VEIL transfers and the production of the blocks that carry them
NextVeil ==
    \/ \E a \in Addrs : login(a)
    \/ Veil
    \/ Mining

SpecVeil == Init /\ [][NextVeil]_vars

\* the balances: transfers, time-locked transfers, block production and the
\* blocks pulled from a peer
NextLedger ==
    \/ \E a \in Addrs : login(a)
    \/ Timelocks
    \/ Mining
    \/ sync_begin
    \/ \E b \in PeerBlocks(Len(chain)) : sync_block(b)
    \/ sync_end

SpecLedger == Init /\ [][NextLedger]_vars

\* the supply: what is emitted, burned, held, locked and wiped
NextSupply ==
    \/ \E a \in Addrs : login(a)
    \/ \E a \in Addrs : panic(a)
    \/ Timelocks
    \/ Mining

SpecSupply == Init /\ [][NextSupply]_vars

\* block production with a data directory that may fail, and the readers
NextLoop ==
    \/ \E a \in Addrs : login(a)
    \/ Mining
    \/ Environment

SpecLoop == Init /\ [][NextLoop]_vars

\* the mining round among sessions that log in and a wallet that spends
NextRound ==
    \/ \E a \in Addrs : login(a)
    \/ Mining
    \/ \E m \in Amounts : veil_transfer("a2", "a1", m)

SpecRound == Init /\ [][NextRound]_vars

\* amounts of which a wallet of the model can send three
SmallAmounts == {300, 400}

\* the mempool and the ephemeral messages from block to block
NextMempool ==
    \/ login("a2")
    \/ \E m \in SmallAmounts : transfer_normal("a1", "a2", m)
    \/ \E recent \in BOOLEAN : send_message("a2", "a1", "hello", recent)
    \/ Mining

SpecMempool == Init /\ [][NextMempool]_vars

\* this node produces blocks and a peer node takes them
NextPeer ==
    \/ login("a1")
    \/ \E m \in SmallAmounts : transfer_normal("a1", "a2", m)
    \/ Mining
    \/ PeerNode

SpecPeer == Init /\ [][NextPeer]_vars

\* the mining rounds of a node whose wallets hold levels
NextRewards ==
    \/ \E a \in Addrs : login(a)
    \/ Mining

SpecRewards == InitLevels /\ [][NextRewards]_vars

\* the store across restarts: block production, its save file by file, VEIL
\* transfers and a restart at any point
NextStore ==
    \/ \E a \in Addrs : login(a)
    \/ mine_rewards
    \/ mine_assemble
    \/ mine_timelock
    \/ mine_prune
    \/ mine_zero_history
    \/ broadcast_block_to_peers
    \/ \E m \in Amounts : veil_transfer("a1", "a2", m)
    \/ Store

SpecStore == Init /\ [][NextStore]_vars

\* commitments and their witnesses
NextWitness == Commitments

\* blocks on their way through the storage tiers
NextTiers == Tiers

SpecTiers == Init /\ [][NextTiers]_vars

SpecWitness == Init /\ [][NextWitness]_vars

\* the speed winners of the blocks
NextPoet == Poet

SpecPoet == Init /\ [][NextPoet]_vars

\* the difficulty from block to block
NextDifficulty == Difficulty

SpecDifficulty == Init /\ [][NextDifficulty]_vars

\* validators registering, being banned and the node restarting
NextValidators == Validators

SpecValidators == Init /\ [][NextValidators]_vars

\* one file written again and again by save_atomic
NextAtomic == Atomic

SpecAtomic == Init /\ [][NextAtomic]_vars

\* what a request may name: an amount that is not positive, a recipient
\* that has no wallet, no delay
RequestAmounts == Amounts \cup {0}
Recipients == Addrs \cup {"nobody"}
RequestDelays == TimelockDelays \cup {0}

\* the request handlers with requests of every kind, good and bad
NextRequests ==
    \/ \E b \in Recipients : \E m \in RequestAmounts : veil_transfer("a1", b, m)
    \/ Stash
    \/ \E b \in Recipients : \E m \in Amounts : \E d \in RequestDelays :
          create_timelock("a2", b, m, d)

SpecRequests == Init /\ [][NextRequests]_vars

\* the same requests with a data directory that may fail
NextFailures ==
    \/ NextRequests
    \/ DiskFails
    \/ DiskRecovers

SpecFailures == Init /\ [][NextFailures]_vars

(***************************************************************************)
(* Properties.                                                             *)
(***************************************************************************)
\* C1: after any sequence of locally produced blocks, peer-submitted blocks,
\* peer-sync appends and pruning runs, every block i >= 1 of the chain has a
\* previous_hash equal to the hash of block i-1.
ChainLinked ==
    \A i \in 2 .. Len(chain) :
        /\ chain[i - 1].hash # NoHash
        /\ chain[i].previous_hash = chain[i - 1].hash

\* C1 witness: a chain that holds a mined, a submitted and a synced block and
\* that a pruning run has rewritten
ChainLinkedWitness ==
    /\ {"mined", "submitted", "synced"} \subseteq via
    /\ Len(chain) >= 4
    /\ \E i \in 1 .. Len(chain) : chain[i].pruned

\* C5: no STASH nullifier appears in two accepted withdrawals, also when two
\* requests carrying the same key wait for the lock together.
NoNullifierTwice ==
    \A i, j \in 1 .. Len(withdrawals) :
        i # j => withdrawals[i].nullifier # withdrawals[j].nullifier

\* C5 witness: a withdrawal was accepted while a second request with the same
\* key was waiting for the lock, and that second request was then rejected
NoNullifierTwiceWitness ==
    /\ \E i \in 1 .. Len(withdrawals) : withdrawals[i].raced
    /\ reply.handler = "stash_withdraw"
    /\ reply.status = "already_spent"

\* C6: a STASH withdrawal of amount A is accepted only if the key corresponds
\* to a recorded, still unspent deposit of nominal A.
WithdrawalHasDeposit ==
    \A i \in 1 .. Len(withdrawals) : withdrawals[i].deposit

\* positions <<block, transaction>> of the VEIL transactions of the chain
ChainVeilTxs ==
    UNION {{<<i, j>> : j \in {k \in 1 .. Len(Txs(chain[i])) :
                                 Txs(chain[i])[k].type = "veil_transfer"}} :
           i \in 1 .. Len(chain)}

\* C4: the key images carried by the transactions included in the chain are
\* pairwise distinct.
KeyImagesDistinct ==
    \A p, q \in ChainVeilTxs :
        p # q => Txs(chain[p[1]])[p[2]].key_image # Txs(chain[q[1]])[q[2]].key_image

\* a VEIL transaction that holds none of real_from, real_to, real_amount
HidesReal(tx) ==
    tx.type = "veil_transfer" =>
        {"real_from", "real_to", "real_amount"} \cap DOMAIN tx = {}

\* C7: a VEIL transfer exposes neither real_from nor real_to nor real_amount
\* in the mempool, in the block stored on the chain, in the block served to a
\* peer or a client, and in the block broadcast to peers.
VeilHidesReal ==
    /\ \A k \in 1 .. Len(mempool) : HidesReal(mempool[k])
    /\ \A i \in 1 .. Len(chain) :
          /\ \A k \in 1 .. Len(Txs(chain[i])) : HidesReal(Txs(chain[i])[k])
          /\ \A k \in 1 .. Len(Txs(blocks_range(i - 1))) :
                HidesReal(Txs(blocks_range(i - 1))[k])
          /\ \A k \in 1 .. Len(block(i - 1)) : HidesReal(block(i - 1)[k])
    /\ \A s \in sent :
          \A k \in 1 .. Len(Txs(s.block)) : HidesReal(Txs(s.block)[k])

\* C8: a VEIL request that repeats an accepted request is rejected with the
\* double-spend error and changes no balance.
VeilReplayRejected ==
    (reply.handler = "veil" /\ reply.replay) =>
        (reply.status = "double_spend" /\ ~reply.changed)

\* C2: for every address, the balance is never negative.
BalancesNonNegative ==
    \A a \in DOMAIN wallets : wallets[a].balance >= 0

\* total_emitted - total_burned of S.counters, and the funds held
TotalEmitted == counters.emitted_mining + counters.emitted_faucet
TotalBurned == counters.burned_fees
TotalHeld ==
    SumOver([a \in DOMAIN wallets |-> wallets[a].balance], DOMAIN wallets)
        + stash_pool.total_balance

\* C3: after every block application, total_emitted - total_burned equals the
\* sum of all account balances plus stash_pool.total_balance.
ConservedAfterBlock ==
    (pc = "save" /\ phases = AllPhases) => TotalEmitted - TotalBurned = TotalHeld

\* C9: a reader of the state observes the complete pre-block or the complete
\* post-block state of a block production, never an intermediate state.
ReadersSeeWholeBlocks ==
    reply.handler = "balance" => reply.phases = AllPhases

\* C10: a block is broadcast to peers only after its persistence has
\* completed.
BroadcastAfterPersistence ==
    \A s \in sent : s.durable

\* the state State.load builds from the files, before anything else has run
JustLoaded ==
    /\ StoreState = disk
    /\ mempool = <<>>
    /\ active_sessions = {}
    /\ pc = "sleep"
    /\ lock = "free"
    /\ save_pc = 0

\* the key images carried by the VEIL transactions of the chain
ChainKeyImages ==
    UNION {BlockKeyImages(Txs(chain[i])) : i \in 1 .. Len(chain)}

\* C11: after a crash at any point, also between two per-file writes of one
\* save, and a reload, the loaded state satisfies the store invariants: no
\* balance is negative, total_emitted - total_burned equals the funds held,
\* and the loaded key-image set holds the key images of the loaded chain.
LoadedStateConsistent ==
    JustLoaded =>
        /\ BalancesNonNegative
        /\ TotalEmitted - TotalBurned = TotalHeld
        /\ ChainKeyImages \subseteq spent_key_images

\* C12: whenever save_atomic is interrupted or fails, at any step, the target
\* file holds its complete previous content or the complete new content,
\* never a partial write.
TargetOldOrNew ==
    /\ sa_target.complete
    /\ sa_target \in {sa_prev, Whole(sa_data)}

\* a save_atomic that replaces existing content was stopped while it wrote:
\* its temporary file holds a part of the new text
TargetOldOrNewWitness ==
    /\ sa_pc = "idle"
    /\ sa_temp = Part(sa_data)
    /\ sa_prev.exists
    /\ sa_prev.v # sa_data
    /\ sa_target = sa_prev

\* C13: a save performed without the state lock writes a consistent
\* snapshot: the chain, wallets, key-image set, stash pool and counters it has
\* written all correspond to one state that existed, even when request
\* handlers mutate the state while the save runs.
SaveWritesOneState ==
    save_pc > 0 =>
        \E s \in existed : \A f \in DOMAIN written : written[f] = s[f]

\* the handlers whose response is recorded with what the request changed
Reporting == {"veil", "stash_withdraw", "create_timelock"}
\* the responses that reject a request for an error of its input
InputErrors ==
    {"invalid_amount", "recipient_not_found", "insufficient", "already_spent",
     "insufficient_pool", "unlock_in_past"}

\* C15: a request rejected for an input error (insufficient balance, unknown
\* recipient, invalid amount, duplicate stash nullifier, insufficient stash
\* pool, unlock block in the past) leaves balances, mempool, key-image set,
\* stash pool and pending timelocks exactly as they were before the request.
RejectedLeavesState ==
    (reply.handler \in Reporting /\ reply.status \in InputErrors) =>
        ~reply.changed

\* a request is rejected for an input error after earlier requests were
\* accepted
RejectedLeavesStateWitness ==
    /\ reply.handler \in Reporting
    /\ reply.status \in InputErrors
    /\ ~reply.changed
    /\ mempool # <<>>

\* C16: whenever an operation reports failure to its caller, also when the
\* failure is a persistence error raised by the save at the end of the
\* request, the in-memory balances, mempool, key-image set and stash pool are
\* the same as before the operation.
FailureLeavesState ==
    (reply.handler \in Reporting /\ reply.status # "ok") => ~reply.changed

\* C14: no loop or request handler performs disk I/O (a state save) or
\* network I/O (the peer broadcast) while it holds the state lock
NoIoUnderLock == \A e \in io_log : ~e.locked

\* C18: in a round with no active session whose wallet holds at least 50 LAC
\* no block is produced: the chain is not extended, the height is unchanged
\* and the loop goes back to sleep
NoSessionHolds50 ==
    \A a \in active_sessions :
        a \notin DOMAIN wallets \/ wallets[a].balance < MIN_BALANCE_FOR_MINING
NoMinersNoBlock ==
    [][(round' # "none" /\ NoSessionHolds50) =>
           /\ round' = "no_miners"
           /\ chain' = chain
           /\ current_height' = current_height
           /\ wallets' = wallets
           /\ pc' = "sleep"]_vars
\* a round has run with a session logged in whose wallet is below 50 LAC
NoMinersNoBlockWitness ==
    /\ round = "no_miners"
    /\ active_sessions # {}

\* C17: a block received from a peer whose hash or previous_hash does not
\* match is rejected: no block of a peer is part of the chain unless its hash
\* is the hash of its contents and its previous_hash is the hash of the block
\* before it
PeerBlockChecked ==
    \A i \in 2 .. Len(chain) :
        (chain[i].miner = "peer" /\ ~chain[i].pruned) =>
            /\ HashMatches(chain[i])
            /\ chain[i].previous_hash = chain[i - 1].hash

\* C19: a commitment is finalized and appended to L1 only if at least
\* min_witnesses signatures were collected for its request, each of them
\* before the deadline; and a request that holds exactly min_witnesses
\* signatures when the trigger checks it does finalize
EnoughWitnesses ==
    \A i \in 1 .. Len(l1_commitments) :
        LET c == l1_commitments[i]
        IN /\ Len(c.witness_signatures) >= MIN_WITNESSES
           /\ c.last_collected_at <= c.deadline
ExactlyMinFinalizes ==
    (/\ trigger_pc = "collect"
     /\ trigger_pc' = "idle"
     /\ Len(pending_requests[trigger_request].signatures_collected) = MIN_WITNESSES)
        => /\ Len(l1_commitments') = Len(l1_commitments) + 1
           /\ trigger_request \notin DOMAIN pending_requests'
FinalizedOnlyWithWitnesses == []EnoughWitnesses /\ [][ExactlyMinFinalizes]_vars
\* a commitment of L1 that holds exactly min_witnesses signatures, the last
\* of them collected at the deadline
FinalizedOnlyWithWitnessesWitness ==
    \E i \in 1 .. Len(l1_commitments) :
        /\ Len(l1_commitments[i].witness_signatures) = MIN_WITNESSES
        /\ l1_commitments[i].last_collected_at = l1_commitments[i].deadline

\* C20: for every accepted commitment the signatures counted toward the
\* threshold come from pairwise distinct addresses
DistinctWitnesses ==
    \A i \in 1 .. Len(l1_commitments) :
        LET addresses == l1_commitments[i].witness_addresses
        IN \A j, k \in 1 .. Len(addresses) :
               j # k => addresses[j] # addresses[k]

\* C22: a witness request that holds fewer than min_witnesses signatures when
\* its deadline passes is dropped: once the trigger that created it has
\* returned, it is no longer among the pending requests
ExpiredRequestDropped ==
    \A r \in DOMAIN pending_requests :
        (trigger_pc = "idle" /\ is_expired(pending_requests[r]))
            => has_enough_witnesses(pending_requests[r], MIN_WITNESSES)

\* C21: for every accepted commitment, previous_commitment is the hash of the
\* L1 entry that immediately precedes it, and it is empty only for the first
CommitmentsLinked ==
    \A i \in 1 .. Len(l1_commitments) :
        l1_commitments[i].previous_commitment =
            IF i = 1 THEN NoCommitment ELSE CommitmentHash(l1_commitments[i - 1])

\* C23: an L2 block is deleted from L2 only if some L1 commitment covers its
\* height
L2DeletedOnlyIfCovered ==
    [][\A b \in l2_blocks \ l2_blocks' :
           find_commitment_for_height(l1_commitments, b.height)]_vars

\* the number of commitments of a list that are at least a given age
CountAged(l1, age) ==
    Cardinality({i \in 1 .. Len(l1) : now' - l1[i].timestamp >= age})
\* C25: after a checkpoint cleanup the commitments retained that are older
\* than 1 year number at most ceil(total / 10), and those older than 5 years
\* at most ceil(total / 100), of the total of that age before the cleanup
CheckpointRetention ==
    [][zh_current_height' # zh_current_height =>
          /\ (CountAged(l1_commitments', ONE_YEAR) - 1) * CHECKPOINT_INTERVAL_1Y
                 < CountAged(l1_commitments, ONE_YEAR)
             \/ CountAged(l1_commitments', ONE_YEAR) = 0
          /\ (CountAged(l1_commitments', FIVE_YEARS) - 1) * CHECKPOINT_INTERVAL_5Y
                 < CountAged(l1_commitments, FIVE_YEARS)
             \/ CountAged(l1_commitments', FIVE_YEARS) = 0]_vars

\* C24: a validator is selected as commitment leader or counted as witness
\* only while its level is at least 5, its stake meets the minimum of its
\* level and its ban has expired: no address is among the active validators,
\* or among those about to sign a witness request, before the end of the
\* latest ban it was given
Eligible(a) ==
    /\ a \in DOMAIN validators
    /\ validators[a].level >= MIN_VALIDATOR_LEVEL
    /\ validators[a].stake >=
           (IF validators[a].level = 5 THEN VALIDATOR_STAKE_L5 ELSE VALIDATOR_STAKE_L6)
    /\ a \in DOMAIN bans => now > bans[a]

OnlyEligibleValidators ==
    /\ \A a \in get_active_validators : Eligible(a)
    /\ \A a \in trigger_todo : Eligible(a)

\* C26: the speed winners of a block are at most SPEED_WINNERS of the
\* submitted proofs, in ascending order of elapsed time with ties in the
\* order of submission, no address holds more than MAX_WINS_PER_ADDRESS of
\* them, and a proof is passed over only when its address already holds that
\* many slots or when the slots are full
Faster(proofs, i, j) ==
    \/ proofs[i].elapsed < proofs[j].elapsed
    \/ proofs[i].elapsed = proofs[j].elapsed /\ i < j

SpeedWinnersOf(proofs, winners) ==
    /\ Len(winners) <= SPEED_WINNERS
    /\ \A i \in 1 .. Len(winners) : winners[i] \in 1 .. Len(proofs)
    /\ \A i, j \in 1 .. Len(winners) :
          i < j => Faster(proofs, winners[i], winners[j])
    /\ \A a \in Miners :
          Cardinality({i \in 1 .. Len(winners) : proofs[winners[i]].address = a})
              <= MAX_WINS_PER_ADDRESS
    /\ \A k \in 1 .. Len(proofs) :
          (\A i \in 1 .. Len(winners) : winners[i] # k) =>
              \/ Cardinality({i \in 1 .. Len(winners) :
                                 /\ proofs[winners[i]].address = proofs[k].address
                                 /\ Faster(proofs, winners[i], k)})
                     = MAX_WINS_PER_ADDRESS
              \/ Cardinality({i \in 1 .. Len(winners) : Faster(proofs, winners[i], k)})
                     = SPEED_WINNERS

SpeedWinnersSelected ==
    [][current_height' # current_height => SpeedWinnersOf(submitted_proofs, speed_winners')]_vars

\* a block whose speed slots are all taken, the first of them by a proof
\* that was submitted after another winner, and with a proof submitted
\* before the last winner passed over
SpeedWinnersSelectedWitness ==
    /\ current_height > 0
    /\ Len(speed_winners) = SPEED_WINNERS
    /\ \E i, j \in 1 .. Len(speed_winners) : i < j /\ speed_winners[i] > speed_winners[j]
    /\ \E k \in 1 .. MaxProofs :
          /\ \A i \in 1 .. Len(speed_winners) : speed_winners[i] # k
          /\ \E i \in 1 .. Len(speed_winners) : k < speed_winners[i]

\* C27: when a block is produced, every address is credited REWARD_PER_WINNER
\* for each slot it won: the credits of the block are REWARD_PER_WINNER times
\* numbers of slots that add up to at most WINNERS_PER_BLOCK, so the block
\* credits at most 190 LAC
CreditedPerSlot ==
    [][round' = "mining" =>
          \E slots \in [Addrs -> 0 .. WINNERS_PER_BLOCK] :
              /\ SumOver(slots, Addrs) <= WINNERS_PER_BLOCK
              /\ \A a \in Addrs :
                    wallets'[a].balance - wallets[a].balance
                        = slots[a] * REWARD_PER_WINNER]_vars

\* C29 as stated: a block holds at most MEMPOOL_PER_BLOCK transactions, the
\* front of the mempool, and at most EPHEMERAL_PER_BLOCK ephemeral messages,
\* and every transaction of the mempool that the block does not hold is in
\* the mempool after the block, in the order it had
BlockMined == pc = "assemble" /\ Len(chain') = Len(chain) + 1

MinedBlockTakesFront ==
    LET mined == chain'[Len(chain')]
    IN /\ Len(mined.transactions) <= MEMPOOL_PER_BLOCK
       /\ mined.transactions = SubSeq(mempool, 1, Len(mined.transactions))
       /\ Len(mined.ephemeral_msgs) <= EPHEMERAL_PER_BLOCK
       /\ mined.ephemeral_msgs = SubSeq(ephemeral_msgs, 1, Len(mined.ephemeral_msgs))
       /\ ephemeral_msgs' = SubSeq(ephemeral_msgs, Len(mined.ephemeral_msgs) + 1,
                                   Len(ephemeral_msgs))
       /\ Len(mempool) >= MEMPOOL_PER_BLOCK => Len(mined.transactions) = MEMPOOL_PER_BLOCK

RECURSIVE TxsInChain(_)
TxsInChain(h) ==
    IF h = 0 THEN 0 ELSE Len(Txs(chain[h])) + TxsInChain(h - 1)

MempoolWithinCap == Len(mempool) <= MEMPOOL_CAP

\* C28: an adjustment of the difficulty changes it by at most 25% of the
\* value it had before, upward or downward
DifficultyStepBounded ==
    [][/\ 4 * (difficulty' - difficulty) <= difficulty
       /\ 4 * (difficulty - difficulty') <= difficulty]_vars

SaveThenReloadIsIdentity ==
    [][(crash_reload /\ disk = StoreState) => StoreState' = StoreState]_vars

\* C33: a peer node that started from the same state and holds the same chain
\* as the node that produced the blocks holds the same balances, the same
\* key-image set and the same STASH pool, whenever the producer has no
\* transaction waiting for a block and is between two rounds
SameChainSameLedger ==
    (/\ peer.chain = chain
     /\ mempool = <<>>
     /\ pc = "sleep")
        => /\ peer.wallets = wallets
           /\ peer.spent_key_images = spent_key_images
           /\ peer.stash_pool = stash_pool

\* the entries of a type in the 'transactions' of the blocks of a chain
RECURSIVE CountEntries(_, _)
CountEntries(blocks, type) ==
    IF blocks = <<>> THEN 0
    ELSE Cardinality({k \in 1 .. Len(Txs(Head(blocks))) :
                         Txs(Head(blocks))[k].type = type})
         + CountEntries(Tail(blocks), type)

Cancelled == CountEntries(chain, "timelock_cancelled")
Activated == CountEntries(chain, "timelock_activated")
NoBlockPruned == \A i \in 1 .. Len(chain) : ~chain[i].pruned

\* every timelocked transfer that was created is pending, cancelled or
\* activated, and only one of the three
ResolvedOrPending ==
    NoBlockPruned =>
        Cancelled + Activated + Cardinality(pending_timelocked) = TimelocksCreated

\* a step that takes transfers out of the pending ones either cancels one of
\* them, refunding amount + fee to its sender, or activates them, crediting
\* amount to the recipient of each; no other step cancels or activates
ResolutionStep ==
    LET gone == pending_timelocked \ pending_timelocked'
    IN IF gone = {}
       THEN Cancelled' <= Cancelled /\ Activated' <= Activated
       ELSE \/ \E tx \in gone :
                  /\ gone = {tx}
                  /\ wallets' = Credit(wallets, tx.from, tx.amount + tx.fee)
                  /\ Cancelled' = Cancelled + 1
                  /\ Activated' = Activated
            \/ /\ wallets' = ExecuteWallets(wallets, gone)
               /\ Activated' = Activated + Cardinality(gone)
               /\ Cancelled' = Cancelled

\* C34: every timelocked transfer is resolved at most once, by a cancellation
\* that refunds amount + fee to the sender or by an activation that credits
\* amount to the recipient, never by both and never twice, however cancel
\* requests and block production interleave
TimelockResolvedOnce == []ResolvedOrPending /\ [][ResolutionStep]_vars

\* a transfer was cancelled and a block was produced after that
TimelockResolvedOnceWitness ==
    /\ Cancelled = 1
    /\ Activated = 0
    /\ pending_timelocked = {}
    /\ Len(chain) > 2
    /\ NoBlockPruned

\* a step that activates transfers activates none whose unlock_block is above
\* the length of the chain, and the timelock step of a block production
\* leaves no transfer pending whose unlock_block the chain has reached
ActivationStep ==
    /\ Activated' > Activated
          => \A tx \in pending_timelocked \ pending_timelocked' :
                 Len(chain') >= tx.unlock_block
    /\ (pc = "timelock" /\ pc' # "timelock")
          => \A tx \in pending_timelocked' : Len(chain') < tx.unlock_block

\* C35: a timelocked transfer is never activated while the chain is shorter
\* than its unlock_block, and a transfer that was not cancelled is activated
\* by the first block production that finds the chain at its unlock_block
ActivatedAtUnlockBlock == [][ActivationStep]_vars

\* a transfer that unlocks two blocks ahead has stayed pending through one
\* block production and was activated by the next
ActivatedAtUnlockBlockWitness ==
    /\ Activated = 1
    /\ Cancelled = 0
    /\ pending_timelocked = {}
    /\ Len(chain) = 3
    /\ NoBlockPruned
    /\ \E k \in 1 .. Len(chain[3].transactions) :
          chain[3].transactions[k].type = "timelock_activated"
    /\ \E k \in 1 .. Len(chain[1].transactions) :
          /\ chain[1].transactions[k].type = "timelock_pending"
          /\ chain[1].transactions[k].unlock_block = 3

\* the commitment a step of add_block has finalized, if it has
FinalizedNow ==
    /\ zh_current_height' # zh_current_height
    /\ l1_commitments' # <<>>
    /\ l1_commitments'[Len(l1_commitments')].height_end = zh_current_height'

\* C36: a commitment that finalizes starts where the last finalized
\* commitment ended (at height 0 when there is none), also when attempts have
\* failed in between: no height is left without an L1 range
NoGapBetweenCommitments ==
    [][FinalizedNow =>
          LET new == l1_commitments'[Len(l1_commitments')]
          IN IF l1_commitments = <<>>
             THEN new.height_start = 0
             ELSE new.height_start <= l1_commitments[Len(l1_commitments)].height_end]_vars

\* C37: the proofs the mining loop submits for its eligible miners are
\* accepted, so that a round with at least SPEED_WINNERS eligible miners has
\* SPEED_WINNERS speed winners and fills the other slots by lottery
LoopProofsAccepted ==
    reply.handler = "mine_block" =>
        /\ reply.proofs_submitted = reply.active_miners
        /\ reply.active_miners >= SPEED_WINNERS
              => /\ reply.speed_winners = SPEED_WINNERS
                 /\ reply.lottery_winners = WINNERS_PER_BLOCK - SPEED_WINNERS

\* C38: a pruning run leaves the most recent FULL_BLOCKS_KEEP blocks of the
\* chain as they are, and every block it prunes keeps its index, its hash and
\* its previous_hash
PruningFrame ==
    [][(pc = "prune" /\ pc' # "prune") =>
          /\ Len(chain') = Len(chain)
          /\ \A i \in 1 .. Len(chain) :
                /\ i > Len(chain) - FULL_BLOCKS_KEEP => chain'[i] = chain[i]
                /\ chain'[i].index = chain[i].index
                /\ chain'[i].hash = chain[i].hash
                /\ chain'[i].previous_hash = chain[i].previous_hash]_vars

\* a run has pruned a block that carries a hash, and the last
\* FULL_BLOCKS_KEEP blocks are whole
PruningFrameWitness ==
    /\ Len(chain) > FULL_BLOCKS_KEEP + 1
    /\ chain[2].pruned
    /\ chain[2].hash # NoHash
    /\ \A i \in 1 .. Len(chain) : i > Len(chain) - FULL_BLOCKS_KEEP => ~chain[i].pruned
    /\ last_prune_block = Len(chain) - FULL_BLOCKS_KEEP

\* C39: no call of add_transaction blocks forever: a thread inside
\* add_transaction never waits for a lock that it holds itself
AddTransactionReturns ==
    \A t \in Threads : batch.at[t] = "add_flush" => batch.lock # t

\* a call made to an OPEN breaker before the timeout has elapsed since the
\* last failure is rejected: func is not called and the breaker stays OPEN
RejectedWhileOpen ==
    (/\ breaker.at = "idle"
     /\ breaker.state = "OPEN"
     /\ now - breaker.last_failure_time < timeout
     /\ breaker' # breaker)
    => /\ breaker'.at = "idle"
       /\ breaker'.outcome = "rejected"
       /\ breaker'.state = "OPEN"
       /\ breaker'.failure_count = breaker.failure_count
       /\ breaker'.last_failure_time = breaker.last_failure_time

\* a trial call is made only after the timeout has elapsed ...
TrialAfterTimeout ==
    (breaker.state = "OPEN" /\ breaker'.state = "HALF_OPEN")
    => now - breaker.last_failure_time > timeout

\* ... and when it returns the breaker is CLOSED with failure_count 0
TrialCloses ==
    (/\ breaker.state = "HALF_OPEN"
     /\ breaker.at = "func"
     /\ breaker'.outcome = "returned"
     /\ breaker'.at = "idle")
    => breaker'.state = "CLOSED" /\ breaker'.failure_count = 0

\* a breaker that a trial call has closed opens at the failure_threshold-th
\* failure since then, and not before
OpensAtThreshold ==
    /\ (breaker.recovered /\ breaker.state = "CLOSED" /\ breaker'.state = "OPEN")
       => breaker'.failures_since = failure_threshold
    /\ (breaker'.recovered /\ breaker'.state = "CLOSED")
       => breaker'.failures_since < failure_threshold

\* C40: an open circuit breaker rejects every call, without calling the
\* wrapped function, until the timeout has elapsed since the last failure; a
\* trial call that succeeds after the timeout closes the breaker with
\* failure_count 0, and failure_threshold failures are then needed to open it
\* again
BreakerOpensAndRecovers ==
    [][RejectedWhileOpen /\ TrialAfterTimeout /\ TrialCloses /\ OpensAtThreshold]_vars

\* the breaker has rejected a call, a trial call has closed it, and
\* failure_threshold failures have opened it again
BreakerOpensAndRecoversWitness ==
    /\ breaker.state = "OPEN"
    /\ breaker.recovered
    /\ breaker.failures_since = failure_threshold
    /\ breaker.outcome = "rejected"
====
